---- MODULE Spec2Model ----
(***************************************************************************)
(* GitReviewer: the structural indexers and the git diff provider.         *)
(*                                                                         *)
(*   src/src/gitreviewer/parser.py   PythonParser (parse, get_imports,     *)
(*                                    get_module_functions, get_classes)   *)
(*   src/src/gitreviewer/repl.py     run_index_command (the project walk)  *)
(*   src/src/gitreviewer/tools/parser.py   parse_java_file (signatures)    *)
(*   src/src/gitreviewer/tools/git.py      GitDiffTool.get_git_diff        *)
(*                                                                         *)
(* Text is a TLA+ string; a file's bytes are a sequence of chunks, each    *)
(* chunk standing for one or more consecutive bytes, and a node's          *)
(* start_byte / end_byte count chunks.  A rendered block and the artifact  *)
(* are sequences of lines (the text split at "\n").                        *)
(***************************************************************************)
EXTENDS Integers, Sequences, FiniteSets, TLC

VARIABLES
    \* ---- PythonParser.parse applied to one file (ParseSpec) ----
    file,                 \* the file handed to parse: [path, readable, items]
    result,               \* what parse returned or raised; NotCalled before
    \* ---- run_index_command (Spec) ----
    fs,                   \* the directory tree under repo_path
    pc,                   \* position inside run_index_command
    is_python_project,    \* repl.py:111
    indexed_files_count,  \* repl.py:105
    outfile,              \* the artifact <project>-index.txt: [exists, open, lines]
    stack,                \* os.walk: directories still to be listed
    files,                \* the file list of the directory being processed
    fidx,                 \* index into files of the file the loop is at
    parsed_content,       \* result of parser.parse(file_path) for the current file
    printed,              \* what run_index_command printed to the user
    history,              \* parse / write / skip events, in program order
    \* ---- one PythonParser instance or two, called again and again (ReparseSpec) ----
    parsers,              \* instance -> its attributes [contents, tree]
    calls,                \* the calls of parse so far: [parser, file, result]
    \* ---- parse_java_file building one signature (JavaSpec) ----
    decl,                 \* the declaration node: its kind and its pieces
    signature,            \* the signature built for it; NotBuilt before
    \* ---- GitDiffTool.get_git_diff (GitSpec) ----
    repo,                 \* what lies at repo_path
    diff_result,          \* what get_git_diff returned or raised; GitNotCalled before
    \* ---- create_project_index over the Java files of a project (IndexSpec) ----
    jfiles,               \* the files os.walk yields, in walk order
    jidx,                 \* how many of them the loop has been through
    full_project_index,   \* tools/parser.py:231
    \* ---- src/agent.py: Memory and LegionAI.run (MemorySpec, LegionSpec) ----
    memory,               \* the Memory object: [interactions, max_interactions, plan]
    added,                \* every interaction handed to add_interaction, in call order
    legion,               \* the frame of LegionAI.run: its position and its locals
    \* ---- repl.py: init_repl and run_commit_command (ReplSpec) ----
    repl                  \* the frame of init_repl and of the command it is running

pvars == <<file, result>>
wvars == <<fs, pc, is_python_project, indexed_files_count, outfile, stack,
           files, fidx, parsed_content, printed, history>>
rvars == <<parsers, calls>>
jvars == <<decl, signature>>
gvars == <<repo, diff_result>>
ivars == <<jfiles, jidx, full_project_index>>
lvars == <<memory, added, legion>>
qvars == <<repl>>
mvars == <<ivars, lvars, qvars>>
ovars == <<rvars, jvars, gvars, mvars>>
vars == <<file, result, fs, pc, is_python_project, indexed_files_count, outfile,
          stack, files, fidx, parsed_content, printed, history,
          parsers, calls, decl, signature, repo, diff_result,
          jfiles, jidx, full_project_index, memory, added, legion, repl>>

(***************************************************************************)
(* Bounds of the model.                                                    *)
(***************************************************************************)
MaxItems == 2      \* top-level statements of a file handed to parse (ParseSpec)
MaxDirs == 2       \* directories below repo_path
MaxFiles == 2      \* files in the whole tree under repo_path
MaxCalls == 3      \* calls of parse in one run of ReparseSpec
MaxModifiers == 2  \* modifiers of one Java declaration (JavaSpec)
MaxJavaFiles == 2  \* files os.walk yields to create_project_index (IndexSpec)
MaxInteractions == 2  \* largest max_interactions of a Memory (MemorySpec)
MaxAdds == 4       \* calls of add_interaction in one run of MemorySpec
MaxAttempts == 2   \* largest max_attempts handed to LegionAI.run (LegionSpec)
MaxPrompts == 2    \* answers other than y and n to one question asked in a loop
MaxInputs == 2     \* lines entered at the gitreviewer> prompt

(***************************************************************************)
(* Strings and sequences.                                                  *)
(***************************************************************************)
RECURSIVE Repeat(_, _)
Repeat(s, n) == IF n = 0 THEN "" ELSE s \o Repeat(s, n - 1)

RECURSIVE JoinStr(_)
JoinStr(chunks) == IF chunks = <<>> THEN "" ELSE Head(chunks) \o JoinStr(Tail(chunks))

RECURSIVE Flatten(_)
Flatten(seqs) == IF seqs = <<>> THEN <<>> ELSE Head(seqs) \o Flatten(Tail(seqs))

RECURSIVE SumLen(_)
SumLen(seqs) == IF seqs = <<>> THEN 0 ELSE Len(Head(seqs)) + SumLen(Tail(seqs))

Count(seq, x) == Cardinality({i \in 1..Len(seq) : seq[i] = x})

EmptyDict == [k \in {} |-> <<>>]

(***************************************************************************)
(* Source files.  A file is a sequence of top-level statements (items);    *)
(* an item gives its source chunks and, for each node the queries of       *)
(* parser.py can capture in it, the node's byte range relative to the      *)
(* item's first byte.  InvalidByte is a byte that is not valid UTF-8.      *)
(***************************************************************************)
InvalidByte == "<E9>"

Node(s, e) == [start_byte |-> s, end_byte |-> e]
None == [none |-> TRUE]

ItemImport ==
    [type |-> "import_statement",
     src |-> <<"import os", "\n">>,
     caps |-> [is |-> Node(0, 1)],
     methods |-> <<>>]

ItemFromImport ==
    [type |-> "import_from_statement",
     src |-> <<"from a import b", "\n">>,
     caps |-> [is |-> Node(0, 1)],
     methods |-> <<>>]

ItemBadImport ==
    [type |-> "import_statement",
     src |-> <<"import caf", InvalidByte, "\n">>,
     caps |-> [is |-> Node(0, 2)],
     methods |-> <<>>]

ItemStatement ==
    [type |-> "expression_statement",
     src |-> <<"x = 1", "\n">>,
     caps |-> EmptyDict,
     methods |-> <<>>]

\* def greet(name): with a docstring and no return annotation
ItemFuncDoc ==
    [type |-> "function_definition",
     src |-> <<"def ", "greet", "(name)", ":", "\n  ", "\"\"\"say hi\"\"\"", "\n">>,
     caps |-> [function |-> Node(0, 6), nm |-> Node(1, 2), param |-> Node(2, 3),
               doc |-> Node(5, 6)],
     methods |-> <<>>]

\* def area(w, h) -> int: with a return annotation and no docstring
ItemFuncRet ==
    [type |-> "function_definition",
     src |-> <<"def ", "area", "(w, h)", " -> ", "int", ":", "\n  ", "return w * h", "\n">>,
     caps |-> [function |-> Node(0, 8), nm |-> Node(1, 2), param |-> Node(2, 3),
               ret |-> Node(4, 5)],
     methods |-> <<>>]

\* class A: no superclasses, no docstring, one method run() without
\* parameters, return annotation or docstring
ItemClassPlain ==
    [type |-> "class_definition",
     src |-> <<"class ", "A", ":", "\n  ", "def ", "run", "()", ":", "\n    ", "pass", "\n">>,
     caps |-> [clazz |-> Node(0, 10), cdn |-> Node(1, 2)],
     methods |-> << [nm |-> Node(5, 6), param |-> Node(6, 7)] >>]

\* class B(Base): with a docstring and one method get(self) -> str with a
\* docstring
ItemClassFull ==
    [type |-> "class_definition",
     src |-> <<"class ", "B", "(Base)", ":", "\n  ", "\"\"\"B doc\"\"\"", "\n  ",
               "def ", "get", "(self)", " -> ", "str", ":", "\n    ",
               "\"\"\"get it\"\"\"", "\n">>,
     caps |-> [clazz |-> Node(0, 15), cdn |-> Node(1, 2), cds |-> Node(2, 3),
               doc |-> Node(5, 6)],
     methods |-> << [nm |-> Node(8, 9), param |-> Node(9, 10), ret |-> Node(11, 12),
                     doc |-> Node(14, 15)] >>]

\* class C(Base): pass -- superclasses, no docstring, no methods
ItemClassBare ==
    [type |-> "class_definition",
     src |-> <<"class ", "C", "(Base)", ":", "\n  ", "pass", "\n">>,
     caps |-> [clazz |-> Node(0, 6), cdn |-> Node(1, 2), cds |-> Node(2, 3)],
     methods |-> <<>>]

\* "class :" -- the name is missing and the grammar's error recovery puts a
\* zero-width identifier where it should be; text() of that node is ""
ItemClassNoName ==
    [type |-> "class_definition",
     src |-> <<"class ", ":", "\n  ", "pass", "\n">>,
     caps |-> [clazz |-> Node(0, 4), cdn |-> Node(1, 1)],
     methods |-> <<>>]

\* class Outer: with a method m(self) that defines a function helper() in
\* its body, and a nested class Inner with a method n(self).  methods holds
\* every function definition below the class node, inner every class
\* definition below it, both in source order
ItemClassNested ==
    [type |-> "class_definition",
     src |-> <<"class ", "Outer", ":", "\n  ",
               "def ", "m", "(self)", ":", "\n    ",
               "def ", "helper", "()", ":", " pass", "\n  ",
               "class ", "Inner", ":", "\n    ",
               "def ", "n", "(self)", ":", " pass", "\n">>,
     caps |-> [clazz |-> Node(0, 24), cdn |-> Node(1, 2)],
     methods |-> << [nm |-> Node(5, 6), param |-> Node(6, 7)],
                    [nm |-> Node(10, 11), param |-> Node(11, 12)],
                    [nm |-> Node(20, 21), param |-> Node(21, 22)] >>,
     inner |-> << [clazz |-> Node(15, 24), cdn |-> Node(16, 17)] >>]

Items == {ItemImport, ItemFromImport, ItemBadImport, ItemStatement, ItemFuncDoc,
          ItemFuncRet, ItemClassPlain, ItemClassFull, ItemClassBare, ItemClassNoName,
          ItemClassNested}

ImportTypes == {"import_statement", "import_from_statement"}

RECURSIVE SeqsUpTo(_, _)
SeqsUpTo(S, n) ==
    IF n = 0 THEN {<<>>}
    ELSE LET shorter == SeqsUpTo(S, n - 1)
         IN shorter \cup {Append(s, x) : s \in {t \in shorter : Len(t) = n - 1}, x \in S}

\* f.read() of the file opened "rb" (parser.py:60-61)
Contents(f) == Flatten([i \in 1..Len(f.items) |-> f.items[i].src])

\* a size check that measures the path text instead of the file
getsize_OfPathText(f) == Len(f.path)

\* os.path.getsize(file) (parser.py:63)
getsize(f) == Len(Contents(f))

Shift(node, base) == Node(node.start_byte + base, node.end_byte + base)

ShiftCaps(caps, base) == [k \in DOMAIN caps |-> Shift(caps[k], base)]

\* parser.parse(self.contents): the syntax tree, every node at its absolute range
Tree(f) ==
    [i \in 1..Len(f.items) |->
        LET base == SumLen([j \in 1..(i - 1) |-> f.items[j].src])
            it == f.items[i]
        IN [type |-> it.type,
            caps |-> ShiftCaps(it.caps, base),
            methods |-> [m \in 1..Len(it.methods) |-> ShiftCaps(it.methods[m], base)],
            inner |-> IF "inner" \in DOMAIN it
                      THEN [c \in 1..Len(it.inner) |-> ShiftCaps(it.inner[c], base)]
                      ELSE <<>>]]

(***************************************************************************)
(* parser.py: text, get_node                                               *)
(***************************************************************************)
body_placeholder == "#...#"

\* a slice that ignores the node's start offset
Slice_FromFileStart(source_code_bytes, node) ==
    SubSeq(source_code_bytes, 1, node.end_byte)

\* source_code_bytes[node.start_byte:node.end_byte]
Slice(source_code_bytes, node) ==
    SubSeq(source_code_bytes, node.start_byte + 1, node.end_byte)

\* bytes.decode('utf8') raises UnicodeDecodeError on an invalid byte
DecodeRaises(bytes) == \E i \in 1..Len(bytes) : bytes[i] = InvalidByte

text_raises(node, source_code_bytes) ==
    /\ node # None
    /\ DecodeRaises(Slice(source_code_bytes, node))

text(node, source_code_bytes) ==
    IF node = None THEN ""
    ELSE JoinStr(Slice(source_code_bytes, node))

\* tools/parser.py: get_node_text has no test for an absent node
get_node_text(node, source_code_bytes) == JoinStr(Slice(source_code_bytes, node))

\* a match is <<pattern index, captures>>; captures maps a capture name to
\* the list of nodes captured under it and has no entry for a capture that
\* matched nothing
get_node(match, key) ==
    LET dt == match[2]
    IN IF key \in DOMAIN dt THEN dt[key][1] ELSE None

(***************************************************************************)
(* The queries of parser.py as the grammar library answers them on Tree(f).*)
(* Query.captures gives a dict from capture name to nodes in source order; *)
(* Query.matches gives one <<pattern index, captures>> per matched node.   *)
(* A capture that matched no node has no key in the dict.                  *)
(***************************************************************************)
ChildrenOfType(tree, types) ==
    LET Wanted(c) == c.type \in types
    IN SelectSeq(tree, Wanted)

MatchOf(caps) == <<0, [k \in DOMAIN caps |-> <<caps[k]>>]>>

\* qi.captures(self.tree.root_node)
imports_captures(tree) ==
    LET stmts == ChildrenOfType(tree, ImportTypes)
    IN IF stmts = <<>> THEN EmptyDict
       ELSE [k \in {"is"} |-> [i \in 1..Len(stmts) |-> stmts[i].caps["is"]]]

\* qf.matches(self.tree.root_node)
functions_matches(tree) ==
    LET defs == ChildrenOfType(tree, {"function_definition"})
    IN [i \in 1..Len(defs) |-> MatchOf(defs[i].caps)]

\* node a lies in the subtree of node b
Within(a, b) == b.start_byte <= a.start_byte /\ a.end_byte <= b.end_byte

\* qc.matches(self.tree.root_node): the pattern has no (module ...) around
\* it, so it matches the class definitions at every depth
classes_matches(tree) ==
    LET defs == ChildrenOfType(tree, {"class_definition"})
        all == Flatten([i \in 1..Len(defs) |-> <<defs[i].caps>> \o defs[i].inner])
    IN [i \in 1..Len(all) |-> MatchOf(all[i])]

\* qm.matches(clazz): every function definition in the subtree of clazz
methods_matches(tree, clazz) ==
    LET Owner(c) == c.type = "class_definition" /\ Within(clazz, c.caps["clazz"])
        owners == SelectSeq(tree, Owner)
        Below(m) == Within(m["nm"], clazz)
        ms == SelectSeq(Flatten([i \in 1..Len(owners) |-> owners[i].methods]), Below)
    IN [i \in 1..Len(ms) |-> MatchOf(ms[i])]

(***************************************************************************)
(* PythonParser.  An operator X_exc gives the exception X raises ("" when  *)
(* it raises none); X gives its value when it raises none.                 *)
(***************************************************************************)
CaptureKeys == {"nm", "param", "ret", "doc"}

\* the first text() call of a list of matches that raises
texts_exc(matches, keys, contents) ==
    IF \E i \in 1..Len(matches), k \in keys :
            text_raises(get_node(matches[i], k), contents)
    THEN "UnicodeDecodeError" ELSE ""

\* parser.py:190: matches['is'] is a plain subscript of the captures dict
get_imports_exc(self) ==
    LET matches == imports_captures(self.tree)
    IN IF "is" \notin DOMAIN matches THEN "KeyError"
       ELSE IF \E i \in 1..Len(matches["is"]) : text_raises(matches["is"][i], self.contents)
       THEN "UnicodeDecodeError"
       ELSE ""

get_imports(self) ==
    LET matches == imports_captures(self.tree)
    IN [i \in 1..Len(matches["is"]) |-> text(matches["is"][i], self.contents)]

FunctionRecord(m, contents) ==
    [name |-> text(get_node(m, "nm"), contents),
     params |-> text(get_node(m, "param"), contents),
     ret |-> text(get_node(m, "ret"), contents),
     doc |-> text(get_node(m, "doc"), contents)]

get_module_functions_exc(self) ==
    texts_exc(functions_matches(self.tree), CaptureKeys, self.contents)

get_module_functions(self) ==
    LET matches == functions_matches(self.tree)
    IN [i \in 1..Len(matches) |-> FunctionRecord(matches[i], self.contents)]

get_methods_of_class_exc(self, clazz) ==
    texts_exc(methods_matches(self.tree, clazz), CaptureKeys, self.contents)

get_methods_of_class(self, clazz) ==
    LET matches == methods_matches(self.tree, clazz)
    IN [i \in 1..Len(matches) |-> FunctionRecord(matches[i], self.contents)]

\* "if name: clazz['name'] = name": the key is set only for a non-empty text
SetIfNonEmpty(key, value) == IF value # "" THEN key :> value ELSE EmptyDict

get_classes_exc(self) ==
    LET matches == classes_matches(self.tree)
    IN IF texts_exc(matches, {"cdn", "cds", "doc"}, self.contents) # ""
       THEN "UnicodeDecodeError"
       ELSE IF \E i \in 1..Len(matches) :
                    get_methods_of_class_exc(self, get_node(matches[i], "clazz")) # ""
       THEN "UnicodeDecodeError"
       ELSE ""

get_classes(self) ==
    LET matches == classes_matches(self.tree)
    IN [i \in 1..Len(matches) |->
           LET m == matches[i]
           IN SetIfNonEmpty("name", text(get_node(m, "cdn"), self.contents))
              @@ SetIfNonEmpty("params", text(get_node(m, "cds"), self.contents))
              @@ SetIfNonEmpty("doc", text(get_node(m, "doc"), self.contents))
              @@ ("methods" :> get_methods_of_class(self, get_node(m, "clazz")))]

(***************************************************************************)
(* PythonParser.parse: the rendered block, as lines.                       *)
(***************************************************************************)
Banner == "#" \o Repeat("=", 30)

HeaderLines(f) == <<Banner, "# file: " \o f.path, Banner>>

ImportLines(imports) == imports \o (IF imports # <<>> THEN <<"">> ELSE <<>>)

\* a rendering of a module function that leaves the documentation line out
FunctionLines_NoDocLine(fn) == <<"def " \o fn.name \o fn.params \o ":">>

FunctionLines(fn) ==
    LET doc_string == IF fn.doc # "" THEN fn.doc ELSE ""
    IN <<"def " \o fn.name \o fn.params \o ":", "  " \o doc_string>>

ModuleFunctionLines(module_functions) ==
    Flatten([i \in 1..Len(module_functions) |-> FunctionLines(module_functions[i])])
    \o (IF module_functions # <<>> THEN <<"">> ELSE <<>>)

\* with a docstring: header, docstring line, placeholder line;
\* without: header and the placeholder after the two indents
MethodLines(m) ==
    LET method_params == IF "params" \in DOMAIN m THEN m.params ELSE ""
        method_return == IF "ret" \in DOMAIN m /\ m.ret # "" THEN " -> " \o m.ret ELSE ""
        header == "  def " \o m.name \o method_params \o method_return \o ":"
    IN IF m.doc # ""
       THEN <<header, "    " \o m.doc, "  " \o body_placeholder>>
       ELSE <<header, "    " \o "  " \o body_placeholder>>

ClassLines(c) ==
    LET class_doc_string == IF "doc" \in DOMAIN c THEN c["doc"] ELSE ""
        class_params == IF "params" \in DOMAIN c THEN c["params"] ELSE ""
    IN <<"class " \o c["name"] \o class_params \o ":", "  " \o class_doc_string>>
       \o Flatten([j \in 1..Len(c["methods"]) |-> MethodLines(c["methods"][j])])
       \o <<"">>

\* c['name'] is a plain subscript: KeyError for a class whose name was not set
ClassesLines_exc(classes) ==
    IF \E i \in 1..Len(classes) : "name" \notin DOMAIN classes[i] THEN "KeyError" ELSE ""

ClassesLines(classes) == Flatten([i \in 1..Len(classes) |-> ClassLines(classes[i])])

\* what a call of parse gave: status "ok" with the rendered lines, "None",
\* or "raise" with the exception; grammar tells whether parser.parse(contents)
\* (parser.py:67) was reached
Raised(exc, grammar) == [status |-> "raise", lines |-> <<>>, exc |-> exc, grammar |-> grammar]
ReturnedNone == [status |-> "None", lines |-> <<>>, exc |-> "", grammar |-> FALSE]
Returned(lines) == [status |-> "ok", lines |-> lines, exc |-> "", grammar |-> TRUE]
NotCalled == [status |-> "not_called", lines |-> <<>>, exc |-> "", grammar |-> FALSE]

\* a PythonParser instance is the attributes parse assigns: self.contents
\* (parser.py:61) and self.tree (parser.py:67); a new instance has neither
NewParser == [contents |-> <<>>, tree |-> <<>>]

\* an instance that keeps the contents and tree of its first parse
parse_self_Cached(self, f) ==
    IF self.tree # <<>> THEN self
    ELSE IF ~f.readable THEN self
    ELSE [contents |-> Contents(f), tree |-> Tree(f)]

\* the instance after parse(f): an open() that raises assigns nothing, the
\* early return for an empty file leaves the tree of the previous call
parse_self(self, f) ==
    IF ~f.readable THEN self
    ELSE IF getsize(f) = 0 THEN [self EXCEPT !.contents = Contents(f)]
    ELSE [contents |-> Contents(f), tree |-> Tree(f)]

\* parser.py:69-100: the block built from self.contents and self.tree
Render(self, f) ==
    IF get_imports_exc(self) # "" THEN Raised(get_imports_exc(self), TRUE)
    ELSE IF get_module_functions_exc(self) # ""
    THEN Raised(get_module_functions_exc(self), TRUE)
    ELSE IF get_classes_exc(self) # "" THEN Raised(get_classes_exc(self), TRUE)
    ELSE IF ClassesLines_exc(get_classes(self)) # "" THEN Raised("KeyError", TRUE)
    ELSE Returned(HeaderLines(f)
                  \o ImportLines(get_imports(self))
                  \o ModuleFunctionLines(get_module_functions(self))
                  \o ClassesLines(get_classes(self)))

\* parse(file) called on an instance in state self
parse_on(self, f) ==
    IF ~f.readable THEN Raised("OSError", FALSE)
    ELSE IF getsize(f) = 0 THEN ReturnedNone
    ELSE Render(parse_self(self, f), f)

\* PythonParser().parse(file): a call on a new instance
parse(f) == parse_on(NewParser, f)

(***************************************************************************)
(* ParseSpec: PythonParser().parse(file) on one file drawn from the        *)
(* bounded set of files.                                                   *)
(***************************************************************************)
ParseInputs ==
    [path : {"m.py"}, readable : BOOLEAN, items : SeqsUpTo(Items, MaxItems)]

ReparseIdle == parsers = <<>> /\ calls = <<>>

NotBuilt == [built |-> FALSE, text |-> <<>>]
JavaIdle == decl = [kind |-> "none"] /\ signature = NotBuilt

GitNotCalled == [kind |-> "not_called"]
GitIdle == repo = [kind |-> "none"] /\ diff_result = GitNotCalled

IndexIdle == jfiles = <<>> /\ jidx = 0 /\ full_project_index = <<>>

LegionIdle == memory = <<>> /\ added = <<>> /\ legion = [pc |-> "idle"]

ReplIdle == repl = [pc |-> "idle"]

MoreIdle == IndexIdle /\ LegionIdle /\ ReplIdle

OthersIdle == ReparseIdle /\ JavaIdle /\ GitIdle /\ MoreIdle

WalkerIdle ==
    /\ fs = <<>>
    /\ pc = "idle"
    /\ is_python_project = FALSE
    /\ indexed_files_count = 0
    /\ outfile = [exists |-> FALSE, open |-> FALSE, lines |-> <<>>]
    /\ stack = <<>>
    /\ files = <<>>
    /\ fidx = 0
    /\ parsed_content = NotCalled
    /\ printed = <<>>
    /\ history = <<>>

ParseInit ==
    /\ file \in ParseInputs
    /\ result = NotCalled
    /\ WalkerIdle
    /\ OthersIdle

Parse ==
    /\ result = NotCalled
    /\ result' = parse(file)
    /\ UNCHANGED <<file, wvars, ovars>>

ParseNext == Parse

ParseSpec == ParseInit /\ [][ParseNext]_vars

(***************************************************************************)
(* run_index_command (repl.py:98-146).                                     *)
(*                                                                         *)
(* The tree under repo_path: directory 0 is repo_path itself, directory d  *)
(* in 1..MaxDirs has a name and a parent; a file has the directory that    *)
(* lists it, a name split at its last dot into stem and ext, and the       *)
(* content parse would read.  repo_path is the current directory, so a     *)
(* path relative to it is what os.path.relpath gives.                      *)
(***************************************************************************)
ignored_directories == {".venv", ".git", "__pycache__", ".pytest_cache", "build", "dist"}

Dashes == Repeat("-", 80)

DirNames == {"pkg", "build"}
Stems == <<"a", "b", "c", "d", "e">>

\* what a directory entry can be: a non-Python file, a zero-byte .py file,
\* a .py file with an import and a function, a .py file without imports
FileKinds ==
    { [ext |-> ".txt", readable |-> TRUE, items |-> <<ItemStatement>>],
      [ext |-> ".py", readable |-> TRUE, items |-> <<>>],
      [ext |-> ".py", readable |-> TRUE, items |-> <<ItemImport, ItemFuncDoc>>],
      [ext |-> ".py", readable |-> TRUE, items |-> <<ItemStatement>>] }

DirIds == 0..MaxDirs

\* the i-th directory entry of the tree: the files are listed directory by
\* directory, each directory's files in the order os.walk lists them
FileEntries(choice) ==
    [i \in 1..Len(choice) |->
        [dir |-> choice[i].dir,
         stem |-> Stems[i],
         ext |-> choice[i].kind.ext,
         readable |-> choice[i].kind.readable,
         items |-> choice[i].kind.items]]

FileSystems ==
    { [name |-> n, parent |-> p, files |-> FileEntries(fl)] :
        n \in [1..MaxDirs -> DirNames],
        p \in {q \in [1..MaxDirs -> 0..MaxDirs] : \A d \in 1..MaxDirs : q[d] < d},
        fl \in {s \in SeqsUpTo([dir : DirIds, kind : FileKinds], MaxFiles) :
                   \A i \in 1..(Len(s) - 1) : s[i].dir <= s[i + 1].dir} }

\* two entries of one directory never share a name
WellFormed(t) ==
    \A d, e \in 1..MaxDirs : (d # e /\ t.parent[d] = t.parent[e]) => t.name[d] # t.name[e]

\* os.scandir(top): the sub-directories and the files of directory d
SubDirs(t, d) ==
    LET ids == [i \in 1..MaxDirs |-> i]
        IsChild(e) == t.parent[e] = d
    IN SelectSeq(ids, IsChild)

RECURSIVE DirPath(_, _)
DirPath(t, d) == IF d = 0 THEN "" ELSE DirPath(t, t.parent[d]) \o t.name[d] \o "/"

FilesOf(t, d) ==
    LET InDir(f) == f.dir = d
    IN SelectSeq(t.files, InDir)

AllFiles(t) == {t.files[i] : i \in 1..Len(t.files)}

\* file.endswith(".py"): ext is the part of the name from its last dot on
EndsWithPy(f) == f.ext = ".py"

\* os.path.join(root, file), relative to the current directory
PathOf(t, f) == DirPath(t, f.dir) \o f.stem \o f.ext

SourceFile(t, f) == [path |-> PathOf(t, f), readable |-> f.readable, items |-> f.items]

\* repl.py:111-118: the first walk prunes nothing and stops at the first .py
RECURSIVE HasPyFile(_, _)
HasPyFile(t, d) ==
    \/ \E k \in 1..Len(FilesOf(t, d)) : EndsWithPy(FilesOf(t, d)[k])
    \/ \E i \in 1..Len(SubDirs(t, d)) : HasPyFile(t, SubDirs(t, d)[i])

\* a walk that filters a copy of dirs and so prunes nothing
PruneDirs_PrunesNothing(t, dirs) == dirs

\* repl.py:126: dirs[:] = [d for d in dirs if d not in ignored_directories]
PruneDirs(t, dirs) ==
    LET Kept(d) == t.name[d] \notin ignored_directories
    IN SelectSeq(dirs, Kept)

Reverse(s) == [i \in 1..Len(s) |-> s[Len(s) + 1 - i]]

Event(ev, path) == [ev |-> ev, path |-> path]
Message(msg, count) == [msg |-> msg, count |-> count]

ParserIdle ==
    /\ file = [path |-> "", readable |-> TRUE, items |-> <<>>]
    /\ result = NotCalled

Init ==
    /\ fs \in {t \in FileSystems : WellFormed(t)}
    /\ pc = "start"
    /\ is_python_project = FALSE
    /\ indexed_files_count = 0
    /\ outfile \in {[exists |-> FALSE, open |-> FALSE, lines |-> <<>>],
                    [exists |-> TRUE, open |-> FALSE, lines |-> <<"stale">>]}
    /\ stack = <<>>
    /\ files = <<>>
    /\ fidx = 0
    /\ parsed_content = NotCalled
    /\ printed = <<>>
    /\ history = <<>>
    /\ ParserIdle
    /\ OthersIdle

\* the check without its return: the message is printed and the walk goes on
CheckPythonProject_NoReturn ==
    /\ pc = "start"
    /\ is_python_project' = HasPyFile(fs, 0)
    /\ pc' = "open"
    /\ printed' = IF is_python_project' THEN printed
                  ELSE Append(printed, Message("not a Python project", 0))
    /\ UNCHANGED <<fs, indexed_files_count, outfile, stack, files, fidx,
                   parsed_content, history, pvars, ovars>>

\* repl.py:110-122
CheckPythonProject ==
    /\ pc = "start"
    /\ is_python_project' = HasPyFile(fs, 0)
    /\ IF is_python_project'
       THEN pc' = "open" /\ UNCHANGED printed
       ELSE /\ pc' = "done"
            /\ printed' = Append(printed, Message("not a Python project", 0))
    /\ UNCHANGED <<fs, indexed_files_count, outfile, stack, files, fidx,
                   parsed_content, history, pvars, ovars>>

\* repl.py:124: open(output_filename, "w") creates or truncates the artifact
OpenOutput ==
    /\ pc = "open"
    /\ outfile' = [exists |-> TRUE, open |-> TRUE, lines |-> <<>>]
    /\ stack' = <<0>>
    /\ pc' = "walk"
    /\ UNCHANGED <<fs, is_python_project, indexed_files_count, files, fidx,
                   parsed_content, printed, history, pvars, ovars>>

\* repl.py:125-126: os.walk yields the next directory, the loop body prunes
\* dirs in place and os.walk pushes what is left
WalkDir ==
    /\ pc = "walk"
    /\ stack # <<>>
    /\ LET top == stack[Len(stack)]
           dirs == PruneDirs(fs, SubDirs(fs, top))
       IN /\ stack' = SubSeq(stack, 1, Len(stack) - 1) \o Reverse(dirs)
          /\ files' = FilesOf(fs, top)
    /\ fidx' = 1
    /\ pc' = "files"
    /\ UNCHANGED <<fs, is_python_project, indexed_files_count, outfile,
                   parsed_content, printed, history, pvars, ovars>>

\* repl.py:128-129: a file whose name does not end in ".py"
SkipFile ==
    /\ pc = "files"
    /\ fidx <= Len(files)
    /\ ~EndsWithPy(files[fidx])
    /\ fidx' = fidx + 1
    /\ UNCHANGED <<fs, pc, is_python_project, indexed_files_count, outfile, stack,
                   files, parsed_content, printed, history, pvars, ovars>>

\* repl.py:130-134
ParseFile ==
    /\ pc = "files"
    /\ fidx <= Len(files)
    /\ EndsWithPy(files[fidx])
    /\ parsed_content' = parse(SourceFile(fs, files[fidx]))
    /\ history' = Append(history, Event("parse", PathOf(fs, files[fidx])))
    /\ pc' = "parsed"
    /\ UNCHANGED <<fs, is_python_project, indexed_files_count, outfile, stack,
                   files, fidx, printed, pvars, ovars>>

\* "if not parsed_content": None or the empty text
Falsy(content) == content.status = "None" \/ (content.status = "ok" /\ content.lines = <<>>)

\* repl.py:137-138: the two writes after a file's parse
Written(lines, content) == lines \o content.lines \o <<Dashes>>

\* repl.py:135-139
WriteBlock ==
    /\ pc = "parsed"
    /\ parsed_content.status = "ok"
    /\ ~Falsy(parsed_content)
    /\ outfile' = [outfile EXCEPT !.lines = Written(@, parsed_content)]
    /\ indexed_files_count' = indexed_files_count + 1
    /\ history' = Append(history, Event("write", PathOf(fs, files[fidx])))
    /\ fidx' = fidx + 1
    /\ pc' = "files"
    /\ UNCHANGED <<fs, is_python_project, stack, files, parsed_content, printed, pvars, ovars>>

\* the counter incremented before the emptiness test
SkipEmpty_Counts ==
    /\ pc = "parsed"
    /\ Falsy(parsed_content)
    /\ indexed_files_count' = indexed_files_count + 1
    /\ history' = Append(history, Event("skip", PathOf(fs, files[fidx])))
    /\ fidx' = fidx + 1
    /\ pc' = "files"
    /\ UNCHANGED <<fs, is_python_project, outfile, stack, files,
                   parsed_content, printed, pvars, ovars>>

\* repl.py:135-136
SkipEmpty ==
    /\ pc = "parsed"
    /\ Falsy(parsed_content)
    /\ history' = Append(history, Event("skip", PathOf(fs, files[fidx])))
    /\ fidx' = fidx + 1
    /\ pc' = "files"
    /\ UNCHANGED <<fs, is_python_project, indexed_files_count, outfile, stack, files,
                   parsed_content, printed, pvars, ovars>>

\* the try block around the whole walk: the first exception ends it
LogError_AbortsWalk ==
    /\ pc = "parsed"
    /\ parsed_content.status = "raise"
    /\ history' = Append(history, Event("error", PathOf(fs, files[fidx])))
    /\ stack' = <<>>
    /\ pc' = "walk"
    /\ UNCHANGED <<fs, is_python_project, indexed_files_count, outfile, files, fidx,
                   parsed_content, printed, pvars, ovars>>

\* a handler that parses the failed file again
LogError_Retries ==
    /\ pc = "parsed"
    /\ parsed_content.status = "raise"
    /\ history' = Append(history, Event("error", PathOf(fs, files[fidx])))
    /\ pc' = "files"
    /\ UNCHANGED <<fs, is_python_project, indexed_files_count, outfile, stack, files,
                   fidx, parsed_content, printed, pvars, ovars>>

\* repl.py:140-141
LogError ==
    /\ pc = "parsed"
    /\ parsed_content.status = "raise"
    /\ history' = Append(history, Event("error", PathOf(fs, files[fidx])))
    /\ fidx' = fidx + 1
    /\ pc' = "files"
    /\ UNCHANGED <<fs, is_python_project, indexed_files_count, outfile, stack, files,
                   parsed_content, printed, pvars, ovars>>

\* the inner for loop is exhausted
EndDir ==
    /\ pc = "files"
    /\ fidx > Len(files)
    /\ pc' = "walk"
    /\ UNCHANGED <<fs, is_python_project, indexed_files_count, outfile, stack, files,
                   fidx, parsed_content, printed, history, pvars, ovars>>

\* repl.py:143-146, after the with block has closed the artifact
Report ==
    /\ pc = "walk"
    /\ stack = <<>>
    /\ outfile' = [outfile EXCEPT !.open = FALSE]
    /\ printed' = Append(printed,
                         IF indexed_files_count > 0
                         THEN Message("Successfully indexed", indexed_files_count)
                         ELSE Message("No Python files were indexed", 0))
    /\ pc' = "done"
    /\ UNCHANGED <<fs, is_python_project, indexed_files_count, stack, files, fidx,
                   parsed_content, history, pvars, ovars>>

Next ==
    \/ CheckPythonProject
    \/ OpenOutput
    \/ WalkDir
    \/ SkipFile
    \/ ParseFile
    \/ WriteBlock
    \/ SkipEmpty
    \/ LogError
    \/ EndDir
    \/ Report

Spec == Init /\ [][Next]_vars

(***************************************************************************)
(* tools/parser.py: the signatures parse_java_file builds.                 *)
(*                                                                         *)
(* A text is a sequence of characters; a word without white space inside   *)
(* it stands for its characters as one element, a space is the element     *)
(* " ".  A declaration node gives the texts of its children that the       *)
(* extract_* functions read.                                               *)
(***************************************************************************)
Sp == <<" ">>
CommaSp == <<",", " ">>

\* sep.join(parts)
RECURSIVE Join(_, _)
Join(sep, parts) ==
    IF parts = <<>> THEN <<>>
    ELSE IF Len(parts) = 1 THEN parts[1]
    ELSE parts[1] \o sep \o Join(sep, Tail(parts))

RECURSIVE lstrip(_)
lstrip(s) == IF s # <<>> /\ Head(s) = " " THEN lstrip(Tail(s)) ELSE s

RECURSIVE rstrip(_)
rstrip(s) == IF s # <<>> /\ s[Len(s)] = " " THEN rstrip(SubSeq(s, 1, Len(s) - 1)) ELSE s

\* str.strip()
strip(s) == rstrip(lstrip(s))

\* str.replace('  ', ' '): one pass from the left over non-overlapping
\* occurrences; what it wrote is not looked at again
RECURSIVE replace(_)
replace(s) ==
    IF Len(s) < 2 THEN s
    ELSE IF s[1] = " " /\ s[2] = " " THEN Sp \o replace(SubSeq(s, 3, Len(s)))
    ELSE <<s[1]>> \o replace(Tail(s))

\* tools/parser.py:26-34
extract_modifiers(node) == Join(Sp, node.modifiers)

\* tools/parser.py:36-45
extract_type_parameters(node) ==
    IF node.type_parameters # <<>>
    THEN <<"<">> \o Join(CommaSp, node.type_parameters) \o <<">">>
    ELSE <<>>

\* tools/parser.py:47-62; the pair is <<extends_clause, implements_clause>>
extract_extends_implements(node) ==
    << IF node.superclass # <<>> THEN <<"extends", " ">> \o node.superclass[1] ELSE <<>>,
       IF node.super_interfaces # <<>>
       THEN <<"implements", " ">> \o Join(CommaSp, node.super_interfaces) ELSE <<>> >>

\* tools/parser.py:64-74
extract_method_parameters(node) == Join(CommaSp, node.formal_parameters)

\* tools/parser.py:76-87
extract_throws_clause(node) ==
    IF node.throws # <<>> THEN <<"throws", " ">> \o Join(CommaSp, node.throws) ELSE <<>>

\* child_by_field_name(...) text, "" when the child is absent
FieldText(children) == IF children # <<>> THEN children[1] ELSE <<>>

\* tools/parser.py:163
class_signature(child) ==
    replace(strip(extract_modifiers(child) \o Sp \o <<child.node_type>> \o Sp
                  \o FieldText(child.name) \o extract_type_parameters(child) \o Sp
                  \o extract_extends_implements(child)[1] \o Sp
                  \o extract_extends_implements(child)[2]))

\* tools/parser.py:188
method_signature(member_node) ==
    replace(strip(extract_modifiers(member_node) \o Sp
                  \o extract_type_parameters(member_node) \o Sp
                  \o FieldText(member_node.type) \o Sp
                  \o FieldText(member_node.name)
                  \o <<"(">> \o extract_method_parameters(member_node) \o <<")">> \o Sp
                  \o extract_throws_clause(member_node)))

\* tools/parser.py:201
field_signature(member_node) ==
    replace(strip(extract_modifiers(member_node) \o Sp
                  \o FieldText(member_node.type) \o Sp
                  \o FieldText(member_node.name)))

\* tools/parser.py:212
constructor_signature(member_node) ==
    replace(strip(extract_modifiers(member_node) \o Sp
                  \o FieldText(member_node.name)
                  \o <<"(">> \o extract_method_parameters(member_node) \o <<")">> \o Sp
                  \o extract_throws_clause(member_node)))

(***************************************************************************)
(* JavaSpec: one declaration node drawn from the bounded set, and the      *)
(* branch of parse_java_file that builds its signature.                    *)
(***************************************************************************)
ModifierSeqs == SeqsUpTo({<<"public">>, <<"static">>}, MaxModifiers)

\* formal_parameter texts are slices of the source, white space included
ParameterLists == {<<>>, << <<"int", " ", "a">> >>, << <<"int", " ", " ", " ", "a">> >>}

ClassDecls ==
    [kind : {"class"}, node_type : {"class", "interface"}, modifiers : ModifierSeqs,
     name : {<< <<"A">> >>}, type_parameters : {<<>>, << <<"T">> >>},
     superclass : {<<>>, << <<"B">> >>},
     super_interfaces : {<<>>, << <<"I">> >>, << <<"I">>, <<"J">> >>}]

MethodDecls ==
    [kind : {"method"}, modifiers : ModifierSeqs, type_parameters : {<<>>, << <<"T">> >>},
     type : {<<>>, << <<"void">> >>}, name : {<< <<"m">> >>},
     formal_parameters : ParameterLists, throws : {<<>>, << <<"E">> >>}]

FieldDecls ==
    [kind : {"field"}, modifiers : ModifierSeqs, type : {<< <<"int">> >>},
     name : {<< <<"x">> >>}]

ConstructorDecls ==
    [kind : {"constructor"}, modifiers : ModifierSeqs, name : {<< <<"A">> >>},
     formal_parameters : ParameterLists, throws : {<<>>, << <<"E">> >>}]

Built(s) == [built |-> TRUE, text |-> s]

JavaInit ==
    /\ decl \in ClassDecls \cup MethodDecls \cup FieldDecls \cup ConstructorDecls
    /\ signature = NotBuilt
    /\ ParserIdle
    /\ WalkerIdle
    /\ ReparseIdle
    /\ GitIdle
    /\ MoreIdle

\* tools/parser.py:158-166
BuildClassSignature ==
    /\ decl.kind = "class"
    /\ signature = NotBuilt
    /\ signature' = Built(class_signature(decl))
    /\ UNCHANGED <<decl, pvars, wvars, rvars, gvars, mvars>>

\* tools/parser.py:178-190
BuildMethodSignature ==
    /\ decl.kind = "method"
    /\ signature = NotBuilt
    /\ signature' = Built(method_signature(decl))
    /\ UNCHANGED <<decl, pvars, wvars, rvars, gvars, mvars>>

\* tools/parser.py:192-203
BuildFieldSignature ==
    /\ decl.kind = "field"
    /\ signature = NotBuilt
    /\ signature' = Built(field_signature(decl))
    /\ UNCHANGED <<decl, pvars, wvars, rvars, gvars, mvars>>

\* tools/parser.py:205-214
BuildConstructorSignature ==
    /\ decl.kind = "constructor"
    /\ signature = NotBuilt
    /\ signature' = Built(constructor_signature(decl))
    /\ UNCHANGED <<decl, pvars, wvars, rvars, gvars, mvars>>

JavaNext ==
    \/ BuildClassSignature
    \/ BuildMethodSignature
    \/ BuildFieldSignature
    \/ BuildConstructorSignature

JavaSpec == JavaInit /\ [][JavaNext]_vars

(***************************************************************************)
(* tools/parser.py: parse_java_file and create_project_index.              *)
(*                                                                         *)
(* A Java file is its package, its imports and its top-level type          *)
(* declarations in source order; every file of the model has a package     *)
(* declaration.  A type declaration is a declaration node as above with    *)
(* the members of its body.  The entry is the dict parse_java_file         *)
(* returns.                                                                *)
(***************************************************************************)
MethodM ==
    [kind |-> "method", modifiers |-> << <<"public">> >>, type_parameters |-> <<>>,
     type |-> << <<"void">> >>, name |-> << <<"m">> >>, formal_parameters |-> <<>>,
     throws |-> <<>>]

MethodGet ==
    [kind |-> "method", modifiers |-> <<>>, type_parameters |-> <<>>,
     type |-> << <<"int">> >>, name |-> << <<"get">> >>, formal_parameters |-> <<>>,
     throws |-> <<>>]

FieldX ==
    [kind |-> "field", modifiers |-> << <<"private">> >>, type |-> << <<"int">> >>,
     name |-> << <<"x">> >>]

ConstructorA ==
    [kind |-> "constructor", modifiers |-> << <<"public">> >>, name |-> << <<"A">> >>,
     formal_parameters |-> << <<"int", " ", "x">> >>, throws |-> <<>>]

\* public class A { public void m(); private int x; public A(int x) }
TypeA ==
    [kind |-> "class", node_type |-> "class", modifiers |-> << <<"public">> >>,
     name |-> << <<"A">> >>, type_parameters |-> <<>>, superclass |-> <<>>,
     super_interfaces |-> <<>>, body |-> <<MethodM, FieldX, ConstructorA>>]

\* interface I { int get(); }
TypeI ==
    [kind |-> "class", node_type |-> "interface", modifiers |-> <<>>,
     name |-> << <<"I">> >>, type_parameters |-> <<>>, superclass |-> <<>>,
     super_interfaces |-> <<>>, body |-> <<MethodGet>>]

\* enum E { }
TypeE ==
    [kind |-> "class", node_type |-> "enum", modifiers |-> <<>>,
     name |-> << <<"E">> >>, type_parameters |-> <<>>, superclass |-> <<>>,
     super_interfaces |-> <<>>, body |-> <<>>]

\* a class declaration without a name child: child_by_field_name('name') is None
TypeNoName ==
    [kind |-> "class", node_type |-> "class", modifiers |-> <<>>,
     name |-> <<>>, type_parameters |-> <<>>, superclass |-> <<>>,
     super_interfaces |-> <<>>, body |-> <<>>]

JavaFile(ext, readable, decls) ==
    [ext |-> ext, readable |-> readable, package |-> <<"p", ".", "q">>,
     imports |-> << <<"java", ".", "util", ".", "List">> >>, decls |-> decls]

JavaFileKinds ==
    { JavaFile(".java", TRUE, <<TypeA>>),
      JavaFile(".java", TRUE, <<TypeA, TypeI>>),
      JavaFile(".java", TRUE, <<TypeE, TypeA>>),
      JavaFile(".java", FALSE, <<TypeA>>),
      JavaFile(".java", TRUE, <<TypeI, TypeNoName>>),
      JavaFile(".txt", TRUE, <<>>) }

\* tools/parser.py:154
types == <<"clazz", "rec", "itf", "enum">>

\* the capture name the query gives a declaration of this type
CaptureName(node_type) ==
    CASE node_type = "class" -> "clazz"
      [] node_type = "record" -> "rec"
      [] node_type = "interface" -> "itf"
      [] node_type = "enum" -> "enum"

\* q.captures(tree.root_node): capture name -> nodes in source order, no
\* key for a capture that matched nothing
java_captures(f) ==
    LET Of(t) == LET Is(d) == CaptureName(d.node_type) = t IN SelectSeq(f.decls, Is)
        present == {t \in {types[i] : i \in 1..Len(types)} : Of(t) # <<>>}
    IN [t \in present |-> Of(t)]

\* the declarations in the order the loops of tools/parser.py:155-157 reach them
Children(f) ==
    Flatten([i \in 1..Len(types) |->
                IF types[i] \in DOMAIN java_captures(f) THEN java_captures(f)[types[i]]
                ELSE <<>>])

MemberSignature(member_node) ==
    CASE member_node.kind = "method" -> method_signature(member_node)
      [] member_node.kind = "field" -> field_signature(member_node)
      [] member_node.kind = "constructor" -> constructor_signature(member_node)

MembersOf(child, kind) ==
    LET Is(m) == m.kind = kind
        ms == SelectSeq(child.body, Is)
    IN [i \in 1..Len(ms) |-> MemberSignature(ms[i])]

\* tools/parser.py:95-102
NewEntry ==
    [k \in {"package", "entity", "type", "imports", "methods", "fields"} |->
        CASE k = "package" -> <<>>
          [] k = "entity" -> EmptyDict
          [] k = "type" -> ""
          [] OTHER -> <<>>]

\* tools/parser.py:158-217 for one declaration: every key is assigned anew
EntryWith(entry, child) ==
    [k \in {"entity", "name", "type", "modifiers", "constructors", "fields", "methods"} |->
        CASE k = "entity" -> class_signature(child)
          [] k = "name" -> FieldText(child.name)
          [] k = "type" -> child.node_type
          [] k = "modifiers" -> extract_modifiers(child)
          [] k = "constructors" -> MembersOf(child, "constructor")
          [] k = "fields" -> MembersOf(child, "field")
          [] k = "methods" -> MembersOf(child, "method")]
    @@ entry

\* get_node_text(None, ...) at tools/parser.py:160 raises AttributeError,
\* which ends the try block; the entry keeps what it held
RECURSIVE EntryAfter(_, _)
EntryAfter(entry, children) ==
    IF children = <<>> THEN entry
    ELSE IF Head(children).name = <<>> THEN entry
    ELSE EntryAfter(EntryWith(entry, Head(children)), Tail(children))

\* the file cannot be read, or a declaration raises: the except clauses of
\* tools/parser.py:219-222 are reached
java_raises(f) == ~f.readable \/ \E i \in 1..Len(f.decls) : f.decls[i].name = <<>>

\* parse_java_file returns entry on every path
parse_java_file(f) ==
    IF ~f.readable THEN NewEntry
    ELSE EntryAfter([NewEntry EXCEPT !["package"] = f.package, !["imports"] = f.imports],
                    Children(f))

(***************************************************************************)
(* IndexSpec: create_project_index (tools/parser.py:226-243) over the      *)
(* files of a project.                                                     *)
(***************************************************************************)
IndexInit ==
    /\ jfiles \in SeqsUpTo(JavaFileKinds, MaxJavaFiles)
    /\ jidx = 0
    /\ full_project_index = <<>>
    /\ ParserIdle
    /\ WalkerIdle
    /\ ReparseIdle
    /\ JavaIdle
    /\ GitIdle
    /\ LegionIdle
    /\ ReplIdle

\* tools/parser.py:235-239
IndexJavaFile ==
    /\ jidx < Len(jfiles)
    /\ jfiles[jidx + 1].ext = ".java"
    /\ full_project_index' = Append(full_project_index, parse_java_file(jfiles[jidx + 1]))
    /\ jidx' = jidx + 1
    /\ UNCHANGED <<jfiles, pvars, wvars, rvars, jvars, gvars, lvars, qvars>>

\* a file whose name does not end with ".java"
SkipOtherFile ==
    /\ jidx < Len(jfiles)
    /\ jfiles[jidx + 1].ext # ".java"
    /\ jidx' = jidx + 1
    /\ UNCHANGED <<jfiles, full_project_index, pvars, wvars, rvars, jvars, gvars, lvars, qvars>>

IndexNext == IndexJavaFile \/ SkipOtherFile

IndexSpec == IndexInit /\ [][IndexNext]_vars

(***************************************************************************)
(* src/agent.py: Memory.                                                   *)
(***************************************************************************)
Interaction(role, message) == [role |-> role, message |-> message]

\* Memory(user_prompt, max_interactions) (agent.py:53-57)
NewMemory(max_interactions) ==
    [interactions |-> <<>>, max_interactions |-> max_interactions, plan |-> None]

\* an add_interaction that evicts the newest message instead of the oldest
add_interaction_EvictsNewest(mem, role, message) ==
    [mem EXCEPT !.interactions =
        Append(IF Len(@) >= mem.max_interactions THEN SubSeq(@, 1, Len(@) - 1) ELSE @,
               Interaction(role, message))]

\* Memory.add_interaction (agent.py:60-67): pop(0) when full, then append
add_interaction(mem, role, message) ==
    [mem EXCEPT !.interactions =
        Append(IF Len(@) >= mem.max_interactions THEN Tail(@) ELSE @,
               Interaction(role, message))]

\* add_interaction called once per entry, in order
RECURSIVE AddAll(_, _)
AddAll(mem, entries) ==
    IF entries = <<>> THEN mem
    ELSE AddAll(add_interaction(mem, Head(entries).role, Head(entries).message),
                Tail(entries))

(***************************************************************************)
(* MemorySpec: any sequence of add_interaction calls on one Memory.        *)
(***************************************************************************)
Roles == {"system", "user"}
Messages == {"m1", "m2"}

MemoryInit ==
    /\ memory \in {NewMemory(n) : n \in 1..MaxInteractions}
    /\ added = <<>>
    /\ legion = [pc |-> "idle"]
    /\ ParserIdle
    /\ WalkerIdle
    /\ ReparseIdle
    /\ JavaIdle
    /\ GitIdle
    /\ IndexIdle
    /\ ReplIdle

AddInteraction ==
    /\ Len(added) < MaxAdds
    /\ \E role \in Roles, message \in Messages :
          /\ memory' = add_interaction(memory, role, message)
          /\ added' = Append(added, Interaction(role, message))
    /\ UNCHANGED <<legion, pvars, wvars, rvars, jvars, gvars, ivars, qvars>>

MemoryNext == AddInteraction

MemorySpec == MemoryInit /\ [][MemoryNext]_vars

(***************************************************************************)
(* src/agent.py: diff_tool and LegionAI.run.                               *)
(*                                                                         *)
(* A text that is tested with "Error:" in ... is a sequence of pieces, one *)
(* of which is "Error:" exactly when the text contains it.  What the LLM,  *)
(* the agent and the user answer is drawn from small sets.                 *)
(***************************************************************************)
MaxAttemptsMessage == "Max attempts reached. Task incomplete."

\* the agents added to LegionAI: the two of agent.py and one more Agent
\* whose run takes the prompt alone
Agents == {"Commiter", "Evaluator", "Reviewer"}

\* what lies at project_dir when diff_tool is called
DirStates == {"missing", "not_a_repo", "git_fails", "staged", "nothing_staged"}

\* agent.py:16-40
diff_tool(dir) ==
    CASE dir = "missing" -> <<"Error:", " Project directory 'd' does not exist.">>
      [] dir = "not_a_repo" -> <<"Error:", " 'd' is not a valid Git repository.">>
      [] dir = "git_fails" -> <<"An error occurred while getting diff: ", "Cmd('git') failed">>
      [] dir = "staged" -> <<"diff --git a/f b/f">>
      [] dir = "nothing_staged" -> <<>>

\* "Error:" in diff_output (agent.py:319, 345)
ContainsError(diff_output) == \E i \in 1..Len(diff_output) : diff_output[i] = "Error:"

\* what selected_agent.run does: raise, or return one of these responses
RunOutcomes == {"raise", "feat: add x", "Commit message accepted"}

\* Evaluator.run(self, commit_message, diff) has no parameter "prompt":
\* a call with that keyword raises TypeError
agent_run_raises(agent, agent_kwargs, outcome) ==
    \/ outcome = "raise"
    \/ agent = "Evaluator" /\ "prompt" \in DOMAIN agent_kwargs

Tasks == [needs_plan : BOOLEAN, needs_approval : BOOLEAN, project_dir : BOOLEAN]

\* agent.py:292-294
NewRun(task, max_attempts) ==
    [pc |-> "start", task |-> task, max_attempts |-> max_attempts,
     selected_agent |-> "", attempts |-> 0, current_prompt |-> "task",
     agent_response |-> "", invoked |-> <<>>, outcome |-> "", invalid_inputs |-> 0]

\* a return statement inside run, or the end of the function after the loop
Finish(l, outcome) == [l EXCEPT !.pc = "done", !.outcome = outcome]

\* agent.py:309-352: the keyword arguments for the agent, or the error that
\* makes run return
Prepared(agent_kwargs) == [error |-> "", agent_kwargs |-> agent_kwargs]
NotPrepared(error) == [error |-> error, agent_kwargs |-> EmptyDict]

Prepare(l, dir) ==
    LET prompt == "prompt" :> l.current_prompt
        diff_output == diff_tool(dir)
    IN IF l.selected_agent = "Commiter"
       THEN IF ~l.task.project_dir
            THEN NotPrepared("Error: Missing project directory for Commiter agent.")
            ELSE IF ContainsError(diff_output)
            THEN NotPrepared("Error executing diff_tool")
            ELSE Prepared(prompt @@ ("diff" :> diff_output))
       ELSE IF l.selected_agent = "Evaluator"
       THEN IF l.agent_response = ""
            THEN NotPrepared("Error: Evaluator requires a commit message.")
            ELSE IF ~l.task.project_dir
            THEN NotPrepared("Error: Missing project directory for Evaluator agent.")
            ELSE IF ContainsError(diff_output)
            THEN NotPrepared("Error executing diff_tool")
            ELSE Prepared(prompt @@ ("commit_message" :> l.agent_response)
                          @@ ("diff" :> diff_output))
       ELSE Prepared(prompt)

\* agent.py:354-404: the call of the agent and what follows it in the same
\* pass of the loop; gives the frame and the interactions recorded
AfterRun(l, agent_kwargs, outcome) ==
    LET called == [l EXCEPT !.invoked =
                       Append(@, [agent |-> l.selected_agent, kwargs |-> agent_kwargs])]
        answered == [called EXCEPT !.agent_response = outcome]
        response == <<Interaction("agent_response", outcome)>>
    IN IF agent_run_raises(l.selected_agent, agent_kwargs, outcome)
       THEN [legion |-> [called EXCEPT !.current_prompt = "retry_after_error"],
             entries |-> <<Interaction("system", "Error during agent execution")>>]
       ELSE IF l.task.needs_approval
       THEN [legion |-> [answered EXCEPT !.pc = "ask"], entries |-> response]
       ELSE IF l.selected_agent = "Evaluator"
       THEN IF outcome = "Commit message accepted"
            THEN [legion |-> Finish(answered, "returned"),
                  entries |-> response
                      \o <<Interaction("system", "Evaluator accepted the commit message.")>>]
            ELSE [legion |-> Finish(answered, "returned"),
                  entries |-> response
                      \o <<Interaction("system", "Evaluator rejected the commit message.")>>]
       ELSE [legion |-> answered, entries |-> response]

(***************************************************************************)
(* LegionSpec: one call of LegionAI.run.  LegionFairSpec adds that the     *)
(* call is not left hanging: the LLM, the agent and the user answer.       *)
(***************************************************************************)
LegionInit ==
    /\ memory \in {NewMemory(24), NewMemory(2),
                   add_interaction(NewMemory(24), "agent_response", "feat: simulated")}
    /\ added = memory.interactions
    /\ legion \in {NewRun(task, n) : task \in Tasks, n \in 0..MaxAttempts}
    /\ ParserIdle
    /\ WalkerIdle
    /\ ReparseIdle
    /\ JavaIdle
    /\ GitIdle
    /\ IndexIdle
    /\ ReplIdle

Record(l, mem, entries) ==
    /\ legion' = l
    /\ memory' = AddAll(mem, entries)
    /\ added' = added \o entries
    /\ UNCHANGED <<pvars, wvars, rvars, jvars, gvars, ivars, qvars>>

\* agent.py:278-290
SelectAgent ==
    /\ legion.pc = "start"
    /\ \E agent \in Agents \cup {"None"} :
          IF agent = "None"
          THEN Record(Finish(legion, "returned"), memory,
                      <<Interaction("system", "Starting task"),
                        Interaction("system", "No appropriate agent found for the task.")>>)
          ELSE Record([legion EXCEPT !.pc = "loop", !.selected_agent = agent], memory,
                      <<Interaction("system", "Starting task"),
                        Interaction("system", "Selected agent: " \o agent)>>)

\* one pass of the while loop up to the question to the user (agent.py:296-404)
Attempt ==
    /\ legion.pc = "loop"
    /\ legion.attempts < legion.max_attempts
    /\ \E dir \in DirStates, outcome \in RunOutcomes :
          LET l == [legion EXCEPT !.attempts = @ + 1]
              plans == l.task.needs_plan /\ memory.plan = None
              mem == IF plans THEN [memory EXCEPT !.plan = [text |-> "plan"]] ELSE memory
              planned == IF plans THEN <<Interaction("system", "Plan generated")>> ELSE <<>>
              prep == Prepare(l, dir)
              ran == AfterRun(l, prep.agent_kwargs, outcome)
          IN IF prep.error # ""
             THEN Record(Finish(l, "returned"), mem,
                         planned \o <<Interaction("system", prep.error)>>)
             ELSE Record(ran.legion, mem, planned \o ran.entries)

\* agent.py:362-365
AnswerYes ==
    /\ legion.pc = "ask"
    /\ Record(Finish(legion, "returned"), memory,
              <<Interaction("user", "User approved task completion.")>>)

\* agent.py:366-371
AnswerNo ==
    /\ legion.pc = "ask"
    /\ Record([legion EXCEPT !.pc = "loop", !.current_prompt = "retry_after_rejection"],
              memory, <<Interaction("user", "User rejected")>>)

\* agent.py:372-373: the question is asked again
AnswerOther ==
    /\ legion.pc = "ask"
    /\ legion.invalid_inputs < MaxPrompts
    /\ Record([legion EXCEPT !.invalid_inputs = @ + 1], memory, <<>>)

\* agent.py:361, 367: input() raises (end of input) inside the try block, so
\* the handler at 402-405 records it and the loop goes on
InputRaises ==
    /\ legion.pc = "ask"
    /\ Record([legion EXCEPT !.pc = "loop", !.current_prompt = "retry_after_error"],
              memory, <<Interaction("system", "Error during agent execution")>>)

\* an end of the loop that records nothing
Exhaust_Silent ==
    /\ legion.pc = "loop"
    /\ legion.attempts >= legion.max_attempts
    /\ Record(Finish(legion, "exhausted"), memory, <<>>)

\* agent.py:406-407
Exhaust ==
    /\ legion.pc = "loop"
    /\ legion.attempts >= legion.max_attempts
    /\ Record(Finish(legion, "exhausted"), memory,
              <<Interaction("system", MaxAttemptsMessage)>>)

LegionNext ==
    \/ SelectAgent
    \/ Attempt
    \/ AnswerYes
    \/ AnswerNo
    \/ AnswerOther
    \/ InputRaises
    \/ Exhaust

LegionSpec == LegionInit /\ [][LegionNext]_vars

LegionFairSpec == LegionSpec /\ WF_vars(LegionNext)

(***************************************************************************)
(* ReparseSpec: parse called again and again, on one PythonParser instance *)
(* or on two, over a small set of files that do not change.                *)
(***************************************************************************)
ParserIds == {"p", "q"}

ReparseFiles ==
    { [path |-> "a.py", readable |-> TRUE, items |-> <<ItemImport, ItemFuncDoc>>],
      [path |-> "b.py", readable |-> TRUE, items |-> <<ItemFromImport, ItemClassFull>>],
      [path |-> "e.py", readable |-> TRUE, items |-> <<>>],
      [path |-> "x.py", readable |-> TRUE, items |-> <<ItemStatement>>],
      [path |-> "u.py", readable |-> FALSE, items |-> <<ItemImport>>] }

ReparseInit ==
    /\ parsers = [i \in ParserIds |-> NewParser]
    /\ calls = <<>>
    /\ ParserIdle
    /\ WalkerIdle
    /\ JavaIdle
    /\ GitIdle
    /\ MoreIdle

\* parsers[i].parse(f)
ParseCall ==
    /\ Len(calls) < MaxCalls
    /\ \E i \in ParserIds, f \in ReparseFiles :
          /\ calls' = Append(calls, [parser |-> i, file |-> f,
                                     result |-> parse_on(parsers[i], f)])
          /\ parsers' = [parsers EXCEPT ![i] = parse_self(parsers[i], f)]
    /\ UNCHANGED <<pvars, wvars, jvars, gvars, mvars>>

ReparseNext == ParseCall

ReparseSpec == ReparseInit /\ [][ReparseNext]_vars

(***************************************************************************)
(* tools/git.py: GitDiffTool.get_git_diff.                                 *)
(*                                                                         *)
(* What lies at repo_path is a repository, a directory that is none, or    *)
(* nothing.  A repository has or lacks a first commit (HEAD) and three     *)
(* sets of paths: changed in the index against HEAD, changed in the work   *)
(* tree against the index, and untracked.  A diff is its lines.            *)
(***************************************************************************)
PathOrder == <<"a.py", "b.py">>
Paths == {PathOrder[i] : i \in 1..Len(PathOrder)}

Repos ==
    [kind : {"repo"}, has_head : BOOLEAN, staged : SUBSET Paths,
     unstaged : SUBSET Paths, untracked : SUBSET Paths]
    \cup {[kind |-> "not_a_repo"], [kind |-> "no_such_path"]}

\* Repo(repo_path): the exception it raises, "" when it raises none
Repo_exc(r) ==
    IF r.kind = "not_a_repo" THEN "InvalidGitRepositoryError"
    ELSE IF r.kind = "no_such_path" THEN "NoSuchPathError"
    ELSE ""

\* repo.is_dirty(untracked_files=True)
is_dirty(r) == r.staged # {} \/ r.unstaged # {} \/ r.untracked # {}

\* repo.git.diff('HEAD', staged=True), i.e. git diff --staged HEAD: git
\* fails on a repository without a commit
git_diff_exc(r) == IF ~r.has_head THEN "GitCommandError" ELSE ""

git_diff(r) ==
    LET Staged(path) == path \in r.staged
        changed == SelectSeq(PathOrder, Staged)
    IN [i \in 1..Len(changed) |-> "diff --git a/" \o changed[i] \o " b/" \o changed[i]]

GitNone(log) == [kind |-> "None", diff |-> <<>>, log |-> log]
GitDiff(diff) == [kind |-> "str", diff |-> diff, log |-> ""]
GitRaised(exc) == [kind |-> "raise", diff |-> <<>>, log |-> exc]

\* tools/git.py:45-54, the body of the try
get_git_diff_try(r) ==
    IF Repo_exc(r) # "" THEN GitRaised(Repo_exc(r))
    ELSE IF is_dirty(r)
    THEN IF git_diff_exc(r) # "" THEN GitRaised(git_diff_exc(r))
         ELSE IF git_diff(r) = <<>> THEN GitNone("info")
         ELSE GitDiff(git_diff(r))
    ELSE GitNone("")

\* a get_git_diff without its except clauses
get_git_diff_Uncaught(r) == get_git_diff_try(r)

\* both except clauses log the error and fall off the end of the function
get_git_diff(r) ==
    IF get_git_diff_try(r).kind = "raise" THEN GitNone("error")
    ELSE get_git_diff_try(r)

GitInit ==
    /\ repo \in Repos
    /\ diff_result = GitNotCalled
    /\ ParserIdle
    /\ WalkerIdle
    /\ ReparseIdle
    /\ JavaIdle
    /\ MoreIdle

GetGitDiff ==
    /\ diff_result = GitNotCalled
    /\ diff_result' = get_git_diff(repo)
    /\ UNCHANGED <<repo, pvars, wvars, rvars, jvars, mvars>>

GitNext == GetGitDiff

GitSpec == GitInit /\ [][GitNext]_vars

(***************************************************************************)
(* repl.py: init_repl and run_commit_command.                              *)
(*                                                                         *)
(* A line the user types is a sequence of pieces: "/", " " and words.      *)
(***************************************************************************)
UserInputs ==
    {<<"/", "exit">>, <<" ", "/", "exit", " ">>, <<"/", "exit", " ", "now">>,
     <<"exit">>, <<"/", " ", "exit">>, <<"/", "help">>, <<"hello">>, <<>>,
     <<"/", "commit">>, <<"/", "review">>, <<"/", "index">>,
     <<"/", "chat">>, <<"/", "chat", " ", "hi">>}

\* user_input.startswith("/")
startswith_slash(user_input) == user_input # <<>> /\ Head(user_input) = "/"

\* user_input[1:].split(' ', 1)
command_parts(user_input) ==
    LET rest == Tail(user_input)
        spaces == {i \in 1..Len(rest) : rest[i] = " "}
        first == CHOOSE i \in spaces : \A j \in spaces : i <= j
    IN IF spaces = {} THEN <<rest>>
       ELSE <<SubSeq(rest, 1, first - 1), SubSeq(rest, first + 1, Len(rest))>>

\* repl.py:179-185
command_of(user_input) == JoinStr(command_parts(user_input)[1])
message_of(user_input) ==
    IF Len(command_parts(user_input)) > 1 THEN JoinStr(command_parts(user_input)[2]) ELSE ""

\* the answers to "Do you want commit the changes staged for commit? (y/N): "
Answers == {<<"y">>, <<"Y", " ">>, <<"n">>, <<" ", "N">>, <<>>, <<" ">>, <<"yes">>}

\* str.lower on the words that occur
lower(word) == IF word = "Y" THEN "y" ELSE IF word = "N" THEN "n" ELSE word

\* input(...).strip().lower() (repl.py:57)
user_confirm(answer) == lower(JoinStr(strip(answer)))

\* get_client(DEFAULT_MODEL) (llm.py:21-31): DEFAULT_MODEL comes from the
\* environment, a Gemini model unless it is set
Clients == {"LLMGoogle", "LLMOllama"}

\* what the model sends back: a JSON text for CommitMessage, or nothing usable
Replies == {"json", ""}

\* tools/git.py:32-34: LLMGoogle.chat returns a ChatResponse object and
\* LLMOllama.chat returns "" after an error; model_validate_json of either
\* raises ValidationError
get_commit_message_raises(client, reply) == client = "LLMGoogle" \/ reply = ""

\* llm.py:94-102: LLMGoogle.chat_stream calls _get_config without tools and
\* _get_config reads kwargs["tools"] (llm.py:55): KeyError at the first
\* chunk.  LLMOllama.chat_stream catches what it raises (llm.py:125-131)
chat_stream_raises(client) == client = "LLMGoogle"

\* the repositories the commands meet
ReplRepos ==
    {[kind |-> "not_a_repo"],
     [kind |-> "repo", has_head |-> TRUE, staged |-> {}, unstaged |-> {}, untracked |-> {}],
     [kind |-> "repo", has_head |-> TRUE, staged |-> {"a.py"}, unstaged |-> {},
      untracked |-> {}]}

\* a run_commit_command that asks for the confirmation whatever the status
run_commit_command_NoStatusCheck(client, diff, reply, r) ==
    IF diff.kind = "None" THEN [steps |-> <<"no diff">>, pc |-> "prompt"]
    ELSE IF get_commit_message_raises(client, reply)
    THEN [steps |-> <<"diff">>, pc |-> "raised"]
    ELSE IF Repo_exc(r) # ""
    THEN [steps |-> <<"diff", "suggestion">>, pc |-> "prompt"]
    ELSE [steps |-> <<"diff", "suggestion",
                      IF is_dirty(r) THEN "status" ELSE "status empty">>,
          pc |-> "confirm"]

\* repl.py:13-53: run_commit_command up to the question; diff is what
\* get_git_diff returned, r the repository when Repo(repo_path) is called.
\* get_commit_message returns a CommitMessage, which is never falsy.
run_commit_command(client, diff, reply, r) ==
    IF diff.kind = "None" THEN [steps |-> <<"no diff">>, pc |-> "prompt"]
    ELSE IF get_commit_message_raises(client, reply)
    THEN [steps |-> <<"diff">>, pc |-> "raised"]
    ELSE IF Repo_exc(r) # ""
    THEN [steps |-> <<"diff", "suggestion">>, pc |-> "prompt"]
    ELSE IF ~is_dirty(r)
    THEN [steps |-> <<"diff", "suggestion", "status empty">>, pc |-> "prompt"]
    ELSE [steps |-> <<"diff", "suggestion", "status">>, pc |-> "confirm"]

\* repl.py:83-97
run_review_command_raises(client, diff) == diff.kind # "None" /\ chat_stream_raises(client)

\* repl.py:148-161
run_chat_command_raises(client, message) == message # "" /\ chat_stream_raises(client)

(***************************************************************************)
(* ReplSpec: init_repl reading one line after the other.                   *)
(***************************************************************************)
ReplInit ==
    /\ repl \in {[pc |-> "prompt", client |-> c, command |-> "", handler |-> "",
                  steps |-> <<>>, inputs |-> 0, invalid_inputs |-> 0] : c \in Clients}
    /\ ParserIdle
    /\ WalkerIdle
    /\ ReparseIdle
    /\ JavaIdle
    /\ GitIdle
    /\ IndexIdle
    /\ LegionIdle

ReplStep(r) ==
    /\ repl' = r
    /\ UNCHANGED <<pvars, wvars, rvars, jvars, gvars, ivars, lvars>>

\* the line read at repl.py:175 with its command word
Read(user_input) ==
    [repl EXCEPT !.inputs = @ + 1,
                 !.command = IF startswith_slash(strip(user_input))
                             THEN command_of(strip(user_input)) ELSE "",
                 !.handler = "", !.steps = <<>>, !.invalid_inputs = 0]

Reads(user_input, command) ==
    /\ repl.pc = "prompt"
    /\ repl.inputs < MaxInputs
    /\ startswith_slash(strip(user_input))
    /\ command_of(strip(user_input)) = command

\* repl.py:187-191
CommandCommit ==
    \E user_input \in UserInputs, r1 \in ReplRepos, r2 \in ReplRepos, reply \in Replies :
       /\ Reads(user_input, "commit")
       /\ LET ran == run_commit_command(repl.client, get_git_diff(r1), reply, r2)
          IN ReplStep([Read(user_input) EXCEPT
                          !.handler = "run_commit_command",
                          !.steps = ran.steps, !.pc = ran.pc])

\* repl.py:57-74: the answer is y and repo.git.commit is called; whether it
\* returns or raises, the loop is left
ConfirmYes ==
    /\ repl.pc = "confirm"
    /\ \E answer \in Answers :
          /\ user_confirm(answer) = "y"
          /\ ReplStep([repl EXCEPT !.steps = @ \o <<"answer y", "commit">>,
                                   !.pc = "prompt"])

\* repl.py:75-77
ConfirmNo ==
    /\ repl.pc = "confirm"
    /\ \E answer \in Answers :
          /\ user_confirm(answer) \in {"n", ""}
          /\ ReplStep([repl EXCEPT !.steps = Append(@, "answer " \o user_confirm(answer)),
                                   !.pc = "prompt"])

\* repl.py:78-79
ConfirmOther ==
    /\ repl.pc = "confirm"
    /\ repl.invalid_inputs < MaxPrompts
    /\ \E answer \in Answers :
          /\ user_confirm(answer) \notin {"y", "n", ""}
          /\ ReplStep([repl EXCEPT !.steps = Append(@, "answer " \o user_confirm(answer)),
                                   !.invalid_inputs = @ + 1])

\* repl.py:192-196
CommandReview ==
    \E user_input \in UserInputs, r \in ReplRepos :
       /\ Reads(user_input, "review")
       /\ ReplStep([Read(user_input) EXCEPT
                       !.handler = "run_review_command",
                       !.pc = IF run_review_command_raises(repl.client, get_git_diff(r))
                              THEN "raised" ELSE "prompt"])

\* repl.py:197-198; run_index_command raises when the index file cannot be
\* opened for writing (repl.py:124)
CommandIndex ==
    \E user_input \in UserInputs, writable \in BOOLEAN :
       /\ Reads(user_input, "index")
       /\ ReplStep([Read(user_input) EXCEPT
                       !.handler = "run_index_command",
                       !.pc = IF writable THEN "prompt" ELSE "raised"])

\* repl.py:199-200
CommandChat ==
    \E user_input \in UserInputs :
       /\ Reads(user_input, "chat")
       /\ ReplStep([Read(user_input) EXCEPT
                       !.handler = "run_chat_command",
                       !.pc = IF run_chat_command_raises(repl.client,
                                                         message_of(strip(user_input)))
                              THEN "raised" ELSE "prompt"])

\* repl.py:201-203
CommandExit ==
    \E user_input \in UserInputs :
       /\ Reads(user_input, "exit")
       /\ ReplStep([Read(user_input) EXCEPT !.pc = "exited"])

\* repl.py:204-207
UnknownInput ==
    \E user_input \in UserInputs :
       /\ repl.pc = "prompt"
       /\ repl.inputs < MaxInputs
       /\ IF startswith_slash(strip(user_input))
          THEN command_of(strip(user_input))
                   \notin {"commit", "review", "index", "chat", "exit"}
          ELSE TRUE
       /\ ReplStep(Read(user_input))

\* input() raises EOFError when the input ends (repl.py:57, 175)
InputEnds ==
    /\ repl.pc \in {"prompt", "confirm"}
    /\ ReplStep([repl EXCEPT !.pc = "eof"])

ReplNext ==
    \/ CommandCommit
    \/ ConfirmYes
    \/ ConfirmNo
    \/ ConfirmOther
    \/ CommandReview
    \/ CommandIndex
    \/ CommandChat
    \/ CommandExit
    \/ UnknownInput
    \/ InputEnds

ReplSpec == ReplInit /\ [][ReplNext]_vars

(***************************************************************************)
(* Vocabulary of the properties.                                           *)
(***************************************************************************)
Range(seq) == {seq[i] : i \in 1..Len(seq)}

\* directory d is, or lies below, a directory with a denylisted name
RECURSIVE Ignored(_, _)
Ignored(t, d) ==
    /\ d # 0
    /\ (t.name[d] \in ignored_directories \/ Ignored(t, t.parent[d]))

PyFiles == {f \in AllFiles(fs) : f.ext = ".py"}
WalkedPyFiles == {f \in PyFiles : ~Ignored(fs, f.dir)}
ParsesOk(f) == parse(SourceFile(fs, f)).status = "ok"

PathLine(f) == "# file: " \o PathOf(fs, f)
EventsOf(ev, f) == {i \in 1..Len(history) : history[i] = Event(ev, PathOf(fs, f))}
NumEvents(ev) == Cardinality({i \in 1..Len(history) : history[i].ev = ev})

\* file blocks in the artifact, counted by their path lines
BlocksInArtifact ==
    Cardinality({i \in 1..Len(outfile.lines) :
                    \E f \in AllFiles(fs) : outfile.lines[i] = PathLine(f)})
SeparatorsInArtifact == Count(outfile.lines, Dashes)

WalkFinished == pc = "done" /\ is_python_project

(***************************************************************************)
(* Properties of run_index_command (Spec).                                 *)
(***************************************************************************)

\* C1: after a walk that wrote n >= 1 file blocks the artifact holds n - 1
\* separator lines, none before the first block and none after the last.
C1_SeparatorsOnlyBetweenBlocks ==
    (WalkFinished /\ BlocksInArtifact >= 1) =>
        /\ SeparatorsInArtifact = BlocksInArtifact - 1
        /\ outfile.lines[1] # Dashes
        /\ outfile.lines[Len(outfile.lines)] # Dashes

\* C2: a file whose parse raises never ends the walk: when the walk has
\* finished every .py file outside the denylisted directories was parsed,
\* every one that parsed to content has its block in the artifact, a file
\* that raised has neither a block nor a separator, and it is not counted.
C2_ParseErrorNeverAbortsWalk ==
    WalkFinished =>
        /\ \A f \in WalkedPyFiles :
              /\ EventsOf("parse", f) # {}
              /\ ParsesOk(f) =>
                    (EventsOf("write", f) # {} /\ PathLine(f) \in Range(outfile.lines))
              /\ parse(SourceFile(fs, f)).status = "raise" =>
                    (EventsOf("write", f) = {} /\ PathLine(f) \notin Range(outfile.lines))
        /\ indexed_files_count = Cardinality({f \in WalkedPyFiles : ParsesOk(f)})
        /\ SeparatorsInArtifact = Cardinality({f \in WalkedPyFiles : ParsesOk(f)})

C2_Witness ==
    /\ WalkFinished
    /\ \E i, j \in 1..Len(history) :
          i < j /\ history[i].ev = "error" /\ history[j].ev = "write"

\* C3: no file below a denylisted directory, at any depth, is ever parsed,
\* written to the artifact or counted.
C3_IgnoredDirectoriesNeverIndexed ==
    /\ \A f \in AllFiles(fs) :
          Ignored(fs, f.dir) =>
              /\ \A i \in 1..Len(history) : history[i].path # PathOf(fs, f)
              /\ PathLine(f) \notin Range(outfile.lines)
              /\ (pc = "parsed" => files[fidx] # f)
    /\ indexed_files_count <= Cardinality(WalkedPyFiles)

C3_Witness ==
    /\ WalkFinished
    /\ indexed_files_count >= 1
    /\ \E f \in PyFiles :
          /\ ParsesOk(f)
          /\ f.dir # 0
          /\ fs.parent[f.dir] # 0
          /\ fs.name[fs.parent[f.dir]] \in ignored_directories
          /\ fs.name[f.dir] \notin ignored_directories

\* C4: with no file ending in ".py" anywhere under the root the command
\* reports it and returns; the artifact is neither created nor truncated
\* and no file is parsed.
C4_NoPythonFileAbortsBeforeOpen ==
    [][(PyFiles = {}) =>
          /\ pc' = "done"
          /\ printed' = <<Message("not a Python project", 0)>>
          /\ outfile' = outfile
          /\ history' = <<>>
          /\ parsed_content' = NotCalled]_vars

C4_Witness ==
    /\ pc = "done"
    /\ PyFiles = {}
    /\ AllFiles(fs) # {}
    /\ outfile = [exists |-> TRUE, open |-> FALSE, lines |-> <<"stale">>]
    /\ printed = <<Message("not a Python project", 0)>>

\* C5: whenever the output file was opened, at least one file block is in
\* it when the command finishes.
C5_ArtifactNeverEmpty ==
    WalkFinished => (BlocksInArtifact >= 1 /\ outfile.lines # <<>>)

\* C6: for a zero-byte .py file parse returns None without reaching the
\* grammar parser and without raising, and the walk then writes nothing for
\* the file and leaves indexed_files_count unchanged.
ZeroByte(f) == f.readable /\ Contents(f) = <<>>

C6_ZeroByteFileSkipped ==
    [][(pc = "parsed" /\ ZeroByte(files[fidx])) =>
          /\ parsed_content.status = "None"
          /\ ~parsed_content.grammar
          /\ outfile' = outfile
          /\ indexed_files_count' = indexed_files_count
          /\ history' = Append(history, Event("skip", PathOf(fs, files[fidx])))]_vars

C6_Witness ==
    /\ WalkFinished
    /\ \E i, j \in 1..Len(history) :
          i < j /\ history[i].ev = "write" /\ history[j].ev = "skip"
    /\ indexed_files_count = 1
    /\ outfile.lines # <<>>

\* C7: indexed_files_count always equals the number of file blocks written
\* to the artifact so far, and the count reported at the end is the number
\* of blocks in the artifact.
C7_CountEqualsBlocksWritten ==
    /\ indexed_files_count = NumEvents("write")
    /\ indexed_files_count = BlocksInArtifact
    /\ WalkFinished =>
          /\ printed # <<>>
          /\ printed[Len(printed)].count = BlocksInArtifact
          /\ (BlocksInArtifact > 0 =>
                 printed[Len(printed)].msg = "Successfully indexed")

C7_Witness ==
    /\ WalkFinished
    /\ indexed_files_count = 2
    /\ printed = <<Message("Successfully indexed", 2)>>

\* C8: files are processed one after another: the outcome of a file (its
\* block and separator written, or the file skipped) directly follows its
\* parse and precedes the next parse, the artifact is the blocks of the
\* written files in that order, each followed by its separator, and no file
\* is parsed twice.
FileAt(path) == CHOOSE f \in AllFiles(fs) : PathOf(fs, f) = path

BlocksInOrder ==
    LET IsWrite(e) == e.ev = "write"
        writes == SelectSeq(history, IsWrite)
    IN Flatten([i \in 1..Len(writes) |->
                   parse(SourceFile(fs, FileAt(writes[i].path))).lines \o <<Dashes>>])

C8_OneFileAtATime ==
    /\ \A i \in 1..Len(history) :
          IF history[i].ev = "parse"
          THEN /\ i < Len(history) =>
                    /\ history[i + 1].ev \in {"write", "skip", "error"}
                    /\ history[i + 1].path = history[i].path
               /\ i = Len(history) => pc = "parsed"
          ELSE i > 1 /\ history[i - 1] = Event("parse", history[i].path)
    /\ \A i, j \in 1..Len(history) :
          (i # j /\ history[i].ev = "parse" /\ history[j].ev = "parse") =>
              history[i].path # history[j].path
    /\ (is_python_project /\ pc # "open") => outfile.lines = BlocksInOrder

C8_Witness ==
    /\ WalkFinished
    /\ NumEvents("parse") = 2
    /\ NumEvents("error") = 1
    /\ NumEvents("write") = 1

(***************************************************************************)
(* Properties of PythonParser.parse (ParseSpec).                           *)
(***************************************************************************)
Parsed == result.status # "not_called"

\* the file can be opened, is not empty and is valid UTF-8
Parseable(f) == f.readable /\ Contents(f) # <<>> /\ ~DecodeRaises(Contents(f))

\* C9: a capture key the code reads and the query result lacks gives an
\* empty or absent value, never an exception.
AbsentKeys(f) ==
    ({"is"} \ DOMAIN imports_captures(Tree(f)))
    \cup UNION {{"nm", "param", "ret", "doc"} \ DOMAIN functions_matches(Tree(f))[i][2] :
                   i \in 1..Len(functions_matches(Tree(f)))}
    \cup UNION {{"cdn", "cds", "doc", "clazz"} \ DOMAIN classes_matches(Tree(f))[i][2] :
                   i \in 1..Len(classes_matches(Tree(f)))}

C9_AbsentCaptureKeyNeverRaises ==
    (Parsed /\ Parseable(file) /\ AbsentKeys(file) # {}) => result.status # "raise"

\* C10: the imports block is one line per import and then one blank line
\* when the file has an import, and nothing when it has none; in both cases
\* the functions and classes of the file are rendered.
ImportTexts(f) ==
    LET stmts == ChildrenOfType(f.items, ImportTypes)
    IN [i \in 1..Len(stmts) |-> JoinStr(SubSeq(stmts[i].src, 1, Len(stmts[i].src) - 1))]

DefinitionHeader(item) ==
    IF item.type = "function_definition"
    THEN "def " \o item.src[2] \o item.src[3] \o ":"
    ELSE "class " \o item.src[2]
         \o (IF "cds" \in DOMAIN item.caps THEN item.src[3] ELSE "") \o ":"

C10_ImportsBlockThenDefinitions ==
    (Parsed /\ Parseable(file) /\ ItemClassNoName \notin Range(file.items)) =>
        /\ result.status = "ok"
        /\ LET n == Len(ImportTexts(file))
           IN /\ SubSeq(result.lines, 4, 3 + n) = ImportTexts(file)
              /\ n > 0 => result.lines[4 + n] = ""
              /\ n = 0 => (Len(result.lines) = 3 \/ result.lines[4] # "")
        /\ \A i \in 1..Len(file.items) :
              file.items[i].type \in {"function_definition", "class_definition"} =>
                  DefinitionHeader(file.items[i]) \in Range(result.lines)

HasImport(f) == ChildrenOfType(f.items, ImportTypes) # <<>>

ClassItems(f) == {i \in 1..Len(f.items) : f.items[i].type = "class_definition"}
FunctionItems(f) == {i \in 1..Len(f.items) : f.items[i].type = "function_definition"}

\* line k of the block is a, the next is b
Consecutive(lines, a, b) ==
    \E k \in 1..(Len(lines) - 1) : lines[k] = a /\ lines[k + 1] = b

\* C11: get_imports returns one list that holds every top-level "import"
\* and "from ... import" statement of the file exactly once, as its source
\* text, in source order, however the two forms are interleaved.
C11_ImportsMergedInSourceOrder ==
    (Parsed /\ Parseable(file)) =>
        /\ get_imports_exc(parse_self(NewParser, file)) = ""
        /\ get_imports(parse_self(NewParser, file)) = ImportTexts(file)

\* C12: a class whose name text is empty is still rendered: parse gives a
\* class line with an empty name, raises nothing, and produces the rest of
\* the block.  Stated for files with an import, where get_imports succeeds.
C12_NamelessClassStillRendered ==
    (Parsed /\ Parseable(file) /\ HasImport(file)
        /\ ItemClassNoName \in Range(file.items)) =>
        /\ result.status = "ok"
        /\ "class :" \in Range(result.lines)

\* C13: a class without a docstring, with or without superclasses and with
\* or without methods, is rendered as its header and then an empty indented
\* documentation line, and parse raises nothing.
C13_DoclessClassRendersEmptyDocLine ==
    (Parsed /\ Parseable(file) /\ ItemClassNoName \notin Range(file.items)) =>
        \A i \in ClassItems(file) :
            "doc" \notin DOMAIN file.items[i].caps =>
                /\ result.status = "ok"
                /\ Consecutive(result.lines, DefinitionHeader(file.items[i]), "  ")

\* C14: the file "import os" + def greet(name) with the docstring say hi
\* and no class renders as banner, path line, banner, "import os", blank,
\* "def greet(name):", the indented docstring, blank, and nothing else.
\* As stated, the documentation line is the docstring's words alone.
GreetFile == [path |-> "m.py", readable |-> TRUE, items |-> <<ItemImport, ItemFuncDoc>>]

C14_GreetBlockAsStated ==
    (Parsed /\ file = GreetFile) =>
        result = Returned(<<"#==============================", "# file: m.py",
                            "#==============================", "import os", "",
                            "def greet(name):", "  say hi", "">>)

\* C14 (amended): the documentation line is the docstring as written in the
\* source, its quotes included.
C14_GreetBlockWithDocstringLiteral ==
    (Parsed /\ file = GreetFile) =>
        result = Returned(<<"#==============================", "# file: m.py",
                            "#==============================", "import os", "",
                            "def greet(name):", "  \"\"\"say hi\"\"\"", "">>)

C14_Witness == Parsed /\ file = GreetFile /\ result.status = "ok"

\* C15: in a rendered block, a method without parameters, return type and
\* docstring (of a class without docstring) is the line "def run():", then
\* an empty indented documentation line, then the placeholder "#...#" on
\* the line after it.
C15_BareMethodThreeLines ==
    (Parsed /\ result.status = "ok" /\ ItemClassPlain \in Range(file.items)) =>
        \E k \in 1..(Len(result.lines) - 2) :
            /\ result.lines[k] = "  def run():"
            /\ result.lines[k + 1] = "    "
            /\ result.lines[k + 2] \in {"#...#", "  #...#", "    #...#", "      #...#"}

\* C16: in a rendered block, a top-level function with a return annotation
\* has the header "def NAME(PARAMS) -> RETURN:", one without has
\* "def NAME(PARAMS):", the shape class methods are rendered with.
FunctionHeaderWithReturn(item) ==
    "def " \o item.src[2] \o item.src[3]
    \o (IF "ret" \in DOMAIN item.caps THEN " -> " \o item.src[5] ELSE "") \o ":"

C16_ModuleFunctionHeaderHasReturnType ==
    (Parsed /\ result.status = "ok") =>
        \A i \in FunctionItems(file) :
            FunctionHeaderWithReturn(file.items[i]) \in Range(result.lines)

\* C18: the text extracted for a captured node, by text() and by
\* get_node_text(), is exactly the file's bytes from the node's start
\* offset to its end offset; text() of an absent node is "".  The expected
\* text is read off the statement's own source, the extracted one off the
\* whole file at the node's absolute offsets.
ExpectedText(item, node) == JoinStr(SubSeq(item.src, node.start_byte + 1, node.end_byte))

ExtractedAsWritten(f, item, rel, abs) ==
    /\ text(abs, Contents(f)) = ExpectedText(item, rel)
    /\ get_node_text(abs, Contents(f)) = ExpectedText(item, rel)

C18_TextIsExactByteSlice ==
    (Parsed /\ Parseable(file)) =>
        /\ \A i \in 1..Len(file.items) :
              /\ \A k \in DOMAIN file.items[i].caps :
                     ExtractedAsWritten(file, file.items[i], file.items[i].caps[k],
                                        Tree(file)[i].caps[k])
              /\ \A m \in 1..Len(file.items[i].methods) :
                     \A k \in DOMAIN file.items[i].methods[m] :
                         ExtractedAsWritten(file, file.items[i], file.items[i].methods[m][k],
                                            Tree(file)[i].methods[m][k])
        /\ text(None, Contents(file)) = ""
        /\ result.status = "ok" =>
              SubSeq(result.lines, 4, 3 + Len(ImportTexts(file))) = ImportTexts(file)

\* a parsed file whose second statement has captured nodes, away from offset 0
C18_Witness ==
    /\ Parsed
    /\ result.status = "ok"
    /\ Len(file.items) = 2
    /\ file.items[2] = ItemClassFull

(***************************************************************************)
(* Properties of the signatures of parse_java_file (JavaSpec).             *)
(***************************************************************************)
DoubleSpace(s) == \E i \in 1..(Len(s) - 1) : s[i] = " " /\ s[i + 1] = " "

PieceOf(node, field) == IF field \in DOMAIN node THEN node[field] ELSE <<>>

\* C17: a class, method, field or constructor signature has no run of two
\* or more spaces and no leading or trailing space, whichever optional
\* pieces are empty, and an optional clause is in it only if it is not empty.
C17_SignaturesHaveSingleSpaces ==
    signature.built =>
        /\ ~DoubleSpace(signature.text)
        /\ Head(signature.text) # " "
        /\ signature.text[Len(signature.text)] # " "
        /\ "extends" \in Range(signature.text) => PieceOf(decl, "superclass") # <<>>
        /\ "implements" \in Range(signature.text) => PieceOf(decl, "super_interfaces") # <<>>
        /\ "throws" \in Range(signature.text) => PieceOf(decl, "throws") # <<>>
        /\ "<" \in Range(signature.text) => PieceOf(decl, "type_parameters") # <<>>

(***************************************************************************)
(* Properties of repeated parses (ReparseSpec).                            *)
(***************************************************************************)

\* C19: two parses of the same unchanged file give the same output, on the
\* same instance or on two and whatever was parsed in between: every call
\* gives what a new instance gives for that file.
C19_ParseIsIdempotent ==
    /\ \A a \in 1..Len(calls) : calls[a].result = parse(calls[a].file)
    /\ \A a, b \in 1..Len(calls) :
          calls[a].file = calls[b].file => calls[a].result = calls[b].result

\* one instance rendered a file, parsed another file, and was given the
\* first file again
C19_Witness ==
    /\ Len(calls) = 3
    /\ calls[1].file = calls[3].file
    /\ calls[2].file # calls[1].file
    /\ calls[1].parser = calls[2].parser
    /\ calls[2].parser = calls[3].parser
    /\ calls[1].result.status = "ok"
    /\ calls[2].result.status # "raise"

(***************************************************************************)
(* Properties of GitDiffTool.get_git_diff (GitSpec).                       *)
(***************************************************************************)
GitCalled == diff_result # GitNotCalled

NoneOrNonEmptyDiff ==
    /\ diff_result.kind \in {"None", "str"}
    /\ diff_result.kind = "str" => diff_result.diff # <<>>

\* a repository whose work tree is clean, or whose index does not differ
\* from HEAD
NoChanges(r) ==
    /\ r.kind = "repo"
    /\ \/ r.staged \cup r.unstaged \cup r.untracked = {}
       \/ r.has_head /\ r.staged = {}

\* opening the repository fails, or git diff HEAD fails for want of a commit
GitFails(r) ==
    \/ r.kind # "repo"
    \/ ~r.has_head /\ r.staged \cup r.unstaged \cup r.untracked # {}

IndexFinished == jidx = Len(jfiles) /\ jfiles # <<>>

JavaFilesDone == {i \in 1..jidx : jfiles[i].ext = ".java"}

\* the position in full_project_index of the entry of the i-th file
EntryIndexOf(i) == Cardinality({j \in JavaFilesDone : j <= i})

\* C21: a Java file whose read or parse fails contributes no entry to the
\* project index: when the walk is over the index holds one entry per Java
\* file that parsed, and none for the others.
C21_FailedFileContributesNothing ==
    IndexFinished =>
        Len(full_project_index) = Cardinality({i \in JavaFilesDone : ~java_raises(jfiles[i])})

\* the entry records declaration d: its name, kind, signature and members
Records(entry, d) ==
    /\ "name" \in DOMAIN entry
    /\ entry["name"] = d.name[1]
    /\ entry["type"] = d.node_type
    /\ entry["entity"] = class_signature(d)
    /\ entry["methods"] = MembersOf(d, "method")
    /\ entry["fields"] = MembersOf(d, "field")
    /\ entry["constructors"] = MembersOf(d, "constructor")

\* C30: the entry of a Java file with k >= 1 top-level type declarations
\* records the name, kind, signature and members of every one of them.
C30_EveryDeclarationRecorded ==
    \A i \in JavaFilesDone :
        ~java_raises(jfiles[i]) =>
            \A k \in 1..Len(jfiles[i].decls) :
                Records(full_project_index[EntryIndexOf(i)], jfiles[i].decls[k])

(***************************************************************************)
(* Properties of Memory (MemorySpec).                                      *)
(***************************************************************************)
Min(a, b) == IF a <= b THEN a ELSE b

\* the last n elements of a sequence
LastN(seq, n) == SubSeq(seq, Len(seq) - n + 1, Len(seq))

\* C22: with max_interactions >= 1, after every add_interaction call the
\* memory holds at most max_interactions interactions, and they are the most
\* recent min(n, max_interactions) of the n messages added, in the order
\* they were added.
C22_MemoryKeepsMostRecent ==
    /\ Len(memory.interactions) <= memory.max_interactions
    /\ memory.interactions = LastN(added, Min(Len(added), memory.max_interactions))

\* more messages were added than the memory holds: the oldest were evicted
C22_Witness ==
    /\ Len(added) > memory.max_interactions + 1
    /\ added[1] # added[Len(added)]

(***************************************************************************)
(* LegionAI.run                                                            *)
(***************************************************************************)
RunDone == legion.pc = "done"

Recorded(message) == {i \in 1..Len(added) : added[i].message = message}

\* C23: in one call of LegionAI.run the agent is invoked at most max_attempts
\* times, whether the attempts raise or are rejected by the user; the call
\* comes to an end, and when it ends because the attempts are used up,
\* "Max attempts reached. Task incomplete." is recorded exactly once, as the
\* last interaction; it is never recorded twice.
C23_AtMostMaxAttempts ==
    /\ [](Len(legion.invoked) <= legion.max_attempts)
    /\ [](Cardinality(Recorded(MaxAttemptsMessage)) <= 1)
    /\ [](RunDone /\ legion.outcome = "exhausted"
            => /\ Len(added) > 0
               /\ added[Len(added)] = Interaction("system", MaxAttemptsMessage)
               /\ memory.interactions[Len(memory.interactions)]
                      = Interaction("system", MaxAttemptsMessage)
               /\ Cardinality(Recorded(MaxAttemptsMessage)) = 1)
    /\ <>RunDone

\* the attempts are used up after one that raised and one the user rejected
C23_Witness ==
    /\ RunDone
    /\ legion.outcome = "exhausted"
    /\ legion.max_attempts = MaxAttempts
    /\ Len(legion.invoked) = legion.max_attempts
    /\ Recorded("Error during agent execution") # {}
    /\ Recorded("User rejected") # {}

\* C24: with needs_approval False, once the run method of an agent other
\* than the Evaluator has returned, the task has ended, the agent was invoked
\* exactly once and "Max attempts reached. Task incomplete." is not recorded.
C24_DoneAfterOneRun ==
    (/\ ~legion.task.needs_approval
     /\ legion.selected_agent \in Agents \ {"Evaluator"}
     /\ legion.agent_response # "")
    => /\ RunDone
       /\ Len(legion.invoked) = 1
       /\ Recorded(MaxAttemptsMessage) = {}

\* memory held an 'agent_response' interaction before run was called
HeldCommitMessage == Len(added) > 0 /\ added[1].role = "agent_response"

\* C25: when the Evaluator is selected, max_attempts is at least 1, memory
\* held a commit message before the call, the task names a project directory
\* and diff_tool reported no error, the finished call has invoked Evaluator.run with that commit
\* message as commit_message and with the diff.
C25_EvaluatorGetsCommitMessage ==
    (/\ RunDone
     /\ legion.max_attempts >= 1
     /\ legion.selected_agent = "Evaluator"
     /\ HeldCommitMessage
     /\ legion.task.project_dir
     /\ Recorded("Error executing diff_tool") = {})
    => \E i \in 1..Len(legion.invoked) :
          /\ legion.invoked[i].agent = "Evaluator"
          /\ {"commit_message", "diff"} \subseteq DOMAIN legion.invoked[i].kwargs
          /\ legion.invoked[i].kwargs["commit_message"] = added[1].message

\* C26: the diff argument an agent receives is always the output of a
\* successful git diff, never the text of a failure of diff_tool.
C26_DiffIsGitOutput ==
    \A i \in 1..Len(legion.invoked) :
       "diff" \in DOMAIN legion.invoked[i].kwargs
       => legion.invoked[i].kwargs["diff"]
              \in {diff_tool("staged"), diff_tool("nothing_staged")}

(***************************************************************************)
(* init_repl and run_commit_command                                        *)
(***************************************************************************)
StepsAt(step) == {i \in 1..Len(repl.steps) : repl.steps[i] = step}

\* C27: in one call of run_commit_command repo.git.commit is invoked at most
\* once, and only as the last step after, in this order: a non-empty diff, a
\* commit suggestion, a non-empty git status, answers that were neither y, n
\* nor empty, and the answer y; an answer n or an empty answer is the last
\* step of the call and no commit follows it or precedes it.
C27_CommitOnlyAfterYes ==
    /\ Cardinality(StepsAt("commit")) <= 1
    /\ \A i \in StepsAt("commit") :
          /\ i = Len(repl.steps)
          /\ i >= 5
          /\ SubSeq(repl.steps, 1, 3) = <<"diff", "suggestion", "status">>
          /\ repl.steps[i - 1] = "answer y"
          /\ \A j \in 4..(i - 2) : repl.steps[j] \notin {"answer y", "answer n", "answer "}
          /\ repl.pc # "confirm"
    /\ \A i \in StepsAt("answer n") \cup StepsAt("answer ") :
          /\ i = Len(repl.steps)
          /\ StepsAt("commit") = {}
          /\ repl.pc # "confirm"
    /\ repl.pc = "confirm" => StepsAt("commit") = {}

\* a commit after an invalid answer and the answer y
C27_Witness ==
    /\ StepsAt("commit") # {}
    /\ StepsAt("answer yes") # {}
    /\ repl.pc = "prompt"

\* C28: init_repl has left its loop, by the break or by an exception of a
\* handler, only after a command whose command word is exit; a line that is
\* not a /commit, /review, /index or /chat command has invoked no handler.
C28_LeavesOnlyOnExit ==
    /\ repl.pc \in {"exited", "raised"} => repl.command = "exit"
    /\ repl.command \notin {"commit", "review", "index", "chat"} => repl.handler = ""

(***************************************************************************)
(* PythonParser.get_classes on nested definitions                          *)
(***************************************************************************)
ClassesOf(f) == get_classes(parse_self(NewParser, f))

NameOf(clazz) == IF "name" \in DOMAIN clazz THEN clazz["name"] ELSE ""

MethodNames(clazz) == [i \in 1..Len(clazz["methods"]) |-> clazz["methods"][i]["name"]]

\* the name nodes of the functions listed for the class of a match
ListedUnder(f, match) ==
    {get_node(m, "nm") : m \in Range(methods_matches(Tree(f), get_node(match, "clazz")))}

\* C29: no function definition is listed in the methods of two classes, and
\* for class Outer (method m holding the function helper, nested class Inner
\* with method n) get_classes lists m alone under Outer and n alone under
\* Inner.
C29_MethodsOfDirectClassOnly ==
    (Parsed /\ Parseable(file)) =>
        /\ \A i, j \in 1..Len(classes_matches(Tree(file))) :
              i # j => ListedUnder(file, classes_matches(Tree(file))[i])
                           \cap ListedUnder(file, classes_matches(Tree(file))[j]) = {}
        /\ \A i \in 1..Len(ClassesOf(file)) :
              /\ NameOf(ClassesOf(file)[i]) = "Outer"
                    => MethodNames(ClassesOf(file)[i]) = <<"m">>
              /\ NameOf(ClassesOf(file)[i]) = "Inner"
                    => MethodNames(ClassesOf(file)[i]) = <<"n">>

====
